---- MODULE Spec2Model ----
(***************************************************************************)
(* PageIndex n8n node: collection store (ingest / sync / delete), the      *)
(* model-call retry loop, the JSON-response parser and the retrieval       *)
(* orchestrator.                                                           *)
(*                                                                         *)
(* Sources: n8n-nodes-pageindex/nodes/PageIndex/PageIndex.node.ts (the     *)
(* node's execute handler) and unnamed/part_001 (PageIndexEngine.ts).      *)
(***************************************************************************)
EXTENDS Integers, Sequences, FiniteSets, TLC

(***************************************************************************)
(* Bounds of the model.                                                    *)
(***************************************************************************)
\* longest item list handed to one ingestCollection / syncCollection run
MaxItems == 2
\* number of node executions in one behaviour (also the range of the clock);
\* one immediate repeat of the last syncCollection may follow them
MaxOps == 2

(***************************************************************************)
(* Strings.  Texts are strings over printable ASCII and the newline.  A    *)
(* string literal of this language cannot hold the backquote (U+0060), so  *)
(* in every text of the model the backquote is written as the apostrophe;  *)
(* the apostrophe itself occurs in no text.                                *)
(***************************************************************************)
Backquote == "'"

\* String.prototype.slice(from, to) for 0 <= from <= to (0-based, half-open)
Slice(s, from, to) ==
    IF from >= to \/ from >= Len(s) THEN ""
    ELSE SubSeq(s, from + 1, IF to > Len(s) THEN Len(s) ELSE to)

\* String.prototype.charAt at the 1-based position i ("" outside the string)
CharAt(s, i) == IF i >= 1 /\ i <= Len(s) THEN SubSeq(s, i, i) ELSE ""

Printable ==
    " !\"#$%&'()*+,-./0123456789:;<=>?@ABCDEFGHIJKLMNOPQRSTUVWXYZ[\\]^_'abcdefghijklmnopqrstuvwxyz{|}~"

\* String.prototype.charCodeAt for one character
CharCode(ch) ==
    IF ch = "\n" THEN 10
    ELSE IF ch = Backquote THEN 96
    ELSE 31 + (CHOOSE i \in 1..Len(Printable) : CharAt(Printable, i) = ch)

(***************************************************************************)
(* Buffer.toString('base64') of an ASCII buffer (node.ts 424, 477).        *)
(***************************************************************************)
Base64Alphabet == "ABCDEFGHIJKLMNOPQRSTUVWXYZabcdefghijklmnopqrstuvwxyz0123456789+/"

B64(v) == CharAt(Base64Alphabet, v + 1)

RECURSIVE Base64(_)
Base64(buf) ==
    IF Len(buf) = 0 THEN ""
    ELSE LET n  == Len(buf)
             b1 == CharCode(CharAt(buf, 1))
             b2 == IF n >= 2 THEN CharCode(CharAt(buf, 2)) ELSE 0
             b3 == IF n >= 3 THEN CharCode(CharAt(buf, 3)) ELSE 0
             c1 == B64(b1 \div 4)
             c2 == B64((b1 % 4) * 16 + (b2 \div 16))
             c3 == IF n >= 2 THEN B64((b2 % 16) * 4 + (b3 \div 64)) ELSE "="
             c4 == IF n >= 3 THEN B64(b3 % 64) ELSE "="
         IN  c1 \o c2 \o c3 \o c4 \o (IF n > 3 THEN Base64(SubSeq(buf, 4, n)) ELSE "")

(***************************************************************************)
(* simpleHash (part_001 489-497).  The accumulator is a 32-bit integer,    *)
(* kept here as two 16-bit halves so that no intermediate value exceeds    *)
(* the integer range of TLC     : h*31 + c is computed half by half.         *)
(***************************************************************************)
Half == 65536

\* one loop iteration: hash = ((hash << 5) - hash) + char; hash |= 0
HashStep(h, c) ==
    LET lo == h.lo * 31 + c
        hi == h.hi * 31 + (lo \div Half)
    IN  [hi |-> hi % Half, lo |-> lo % Half]

RECURSIVE HashLoop(_, _, _)
HashLoop(h, content, i) ==
    IF i > Len(content) THEN h
    ELSE HashLoop(HashStep(h, CharCode(CharAt(content, i))), content, i + 1)

\* a faulty magnitude that drops the sign bit
Low31(h) == [hi |-> h.hi % 32768, lo |-> h.lo]

\* Math.abs of the accumulator read as a signed 32-bit integer, as 16-bit halves
Abs32(h) ==
    IF h.hi < 32768 THEN h
    ELSE IF h.lo = 0 THEN [hi |-> (Half - h.hi) % Half, lo |-> 0]
    ELSE [hi |-> Half - 1 - h.hi, lo |-> Half - h.lo]

HexDigit(d) == SubSeq("0123456789abcdef", d + 1, d + 1)

RECURSIVE ToHex(_)
\* Number.prototype.toString(16) of a value below 2^16 (no leading zeros)
ToHex(n) == IF n < 16 THEN HexDigit(n) ELSE ToHex(n \div 16) \o HexDigit(n % 16)

RECURSIVE PadStart(_, _, _)
PadStart(s, width, fill) ==
    IF Len(s) >= width THEN s ELSE PadStart(fill \o s, width, fill)

\* toString(16) of the 32-bit magnitude
ToHex32(h) ==
    IF h.hi = 0 THEN ToHex(h.lo) ELSE ToHex(h.hi) \o PadStart(ToHex(h.lo), 4, "0")

simpleHash(content) ==
    PadStart(ToHex32(Abs32(HashLoop([hi |-> 0, lo |-> 0], content, 1))), 8, "0")

(***************************************************************************)
(* String helpers of the JavaScript runtime.                               *)
(***************************************************************************)
IsWhitespace(ch) == ch \in {" ", "\n", "\t", "\r"}

RECURSIVE TrimStart(_)
TrimStart(s) ==
    IF Len(s) > 0 /\ IsWhitespace(CharAt(s, 1)) THEN TrimStart(SubSeq(s, 2, Len(s))) ELSE s

RECURSIVE TrimEnd(_)
TrimEnd(s) ==
    IF Len(s) > 0 /\ IsWhitespace(CharAt(s, Len(s)))
    THEN TrimEnd(SubSeq(s, 1, Len(s) - 1)) ELSE s

\* String.prototype.trim
Trim(s) == TrimEnd(TrimStart(s))

\* String.prototype.startsWith
StartsWith(s, prefix) == Len(s) >= Len(prefix) /\ SubSeq(s, 1, Len(prefix)) = prefix

RECURSIVE IndexOf(_, _, _)
\* the first 1-based position >= from at which sep occurs in s, or 0
IndexOf(s, sep, from) ==
    IF from + Len(sep) - 1 > Len(s) THEN 0
    ELSE IF SubSeq(s, from, from + Len(sep) - 1) = sep THEN from
    ELSE IndexOf(s, sep, from + 1)

RECURSIVE Split(_, _)
\* String.prototype.split(sep) for a non-empty separator
Split(s, sep) ==
    LET at == IndexOf(s, sep, 1)
    IN  IF at = 0 THEN <<s>>
        ELSE <<SubSeq(s, 1, at - 1)>> \o Split(SubSeq(s, at + Len(sep), Len(s)), sep)

(***************************************************************************)
(* JavaScript objects used as maps (Record<string, T>): the own keys in    *)
(* insertion order, each with its value.                                   *)
(***************************************************************************)
EmptyObject == << >>

Keys(o) == [i \in 1..Len(o) |-> o[i].k]

KeySet(o) == {o[i].k : i \in 1..Len(o)}

Has(o, key) == key \in KeySet(o)

\* o[key], for a key the object has
Get(o, key) == o[CHOOSE i \in 1..Len(o) : o[i].k = key].v

\* o[key] = value: an existing key keeps its place, a new key goes last
Set(o, key, value) ==
    IF Has(o, key)
    THEN [i \in 1..Len(o) |-> IF o[i].k = key THEN [k |-> key, v |-> value] ELSE o[i]]
    ELSE Append(o, [k |-> key, v |-> value])

\* delete o[key]
Delete(o, key) == SelectSeq(o, LAMBDA e : e.k # key)

(***************************************************************************)
(* JSON.parse, for texts without escapes or fractions.  A value is a       *)
(* record tagged by its type; a text that is no JSON parses to SyntaxError.*)
(***************************************************************************)
JStr(str) == [t |-> "str", s |-> str]

JNum(n) == [t |-> "num", n |-> n]

JArr(elems) == [t |-> "arr", e |-> elems]

JObj(members) == [t |-> "obj", m |-> members]

JNull == [t |-> "null"]

JBool(b) == [t |-> "bool", b |-> b]

SyntaxError == [t |-> "error", message |-> "SyntaxError"]

TypeError == [t |-> "error", message |-> "TypeError"]

IsError(v) == v.t = "error"

Digits == "0123456789"

IsDigit(ch) == Len(ch) = 1 /\ IndexOf(Digits, ch, 1) > 0

RECURSIVE SkipWs(_, _)
SkipWs(s, i) == IF i <= Len(s) /\ IsWhitespace(CharAt(s, i)) THEN SkipWs(s, i + 1) ELSE i

Failed == [ok |-> FALSE]

Parsed(v, next) == [ok |-> TRUE, v |-> v, next |-> next]

\* a string body from position i (after the opening quote) up to the closing quote
ParseString(s, i) ==
    LET close == IndexOf(s, "\"", i)
    IN  IF i > Len(s) \/ close = 0 THEN Failed
        ELSE Parsed(SubSeq(s, i, close - 1), close + 1)

RECURSIVE ParseNumber(_, _, _)
ParseNumber(s, i, acc) ==
    IF i <= Len(s) /\ IsDigit(CharAt(s, i))
    THEN ParseNumber(s, i + 1, acc * 10 + (IndexOf(Digits, CharAt(s, i), 1) - 1))
    ELSE Parsed(JNum(acc), i)

RECURSIVE ParseValue(_, _), ParseMembers(_, _, _), ParseElements(_, _, _)
\* the value that starts at position i (whitespace already skipped)
ParseValue(s, i) ==
    IF i > Len(s) THEN Failed
    ELSE LET ch == CharAt(s, i)
         IN  IF ch = "{" THEN
                 (IF CharAt(s, SkipWs(s, i + 1)) = "}"
                  THEN Parsed(JObj(EmptyObject), SkipWs(s, i + 1) + 1)
                  ELSE ParseMembers(s, SkipWs(s, i + 1), EmptyObject))
             ELSE IF ch = "[" THEN
                 (IF CharAt(s, SkipWs(s, i + 1)) = "]"
                  THEN Parsed(JArr(<< >>), SkipWs(s, i + 1) + 1)
                  ELSE ParseElements(s, SkipWs(s, i + 1), << >>))
             ELSE IF ch = "\"" THEN
                 (LET r == ParseString(s, i + 1)
                  IN  IF r.ok THEN Parsed(JStr(r.v), r.next) ELSE Failed)
             ELSE IF ch = "0" /\ IsDigit(CharAt(s, i + 1)) THEN Failed
             ELSE IF IsDigit(ch) THEN ParseNumber(s, i, 0)
             ELSE IF ch = "-" THEN
                 (IF ~IsDigit(CharAt(s, i + 1))
                     \/ (CharAt(s, i + 1) = "0" /\ IsDigit(CharAt(s, i + 2)))
                  THEN Failed
                  ELSE LET r == ParseNumber(s, i + 1, 0)
                       IN  Parsed(JNum(0 - r.v.n), r.next))
             ELSE IF StartsWith(SubSeq(s, i, Len(s)), "true") THEN Parsed(JBool(TRUE), i + 4)
             ELSE IF StartsWith(SubSeq(s, i, Len(s)), "false") THEN Parsed(JBool(FALSE), i + 5)
             ELSE IF StartsWith(SubSeq(s, i, Len(s)), "null") THEN Parsed(JNull, i + 4)
             ELSE Failed

\* "key": value pairs from position i up to the closing brace; a repeated key
\* keeps its first place and takes the last value
ParseMembers(s, i, acc) ==
    IF i > Len(s) \/ CharAt(s, i) # "\"" THEN Failed
    ELSE LET key == ParseString(s, i + 1)
         IN  IF ~key.ok THEN Failed
             ELSE LET colon == SkipWs(s, key.next)
                  IN  IF CharAt(s, colon) # ":" THEN Failed
                      ELSE LET val == ParseValue(s, SkipWs(s, colon + 1))
                           IN  IF ~val.ok THEN Failed
                               ELSE LET after == SkipWs(s, val.next)
                                        members == Set(acc, key.v, val.v)
                                    IN  IF CharAt(s, after) = "}"
                                        THEN Parsed(JObj(members), after + 1)
                                        ELSE IF CharAt(s, after) = ","
                                        THEN ParseMembers(s, SkipWs(s, after + 1), members)
                                        ELSE Failed

ParseElements(s, i, acc) ==
    LET val == ParseValue(s, i)
    IN  IF ~val.ok THEN Failed
        ELSE LET after == SkipWs(s, val.next)
                 elems == Append(acc, val.v)
             IN  IF CharAt(s, after) = "]" THEN Parsed(JArr(elems), after + 1)
                 ELSE IF CharAt(s, after) = ","
                 THEN ParseElements(s, SkipWs(s, after + 1), elems)
                 ELSE Failed

JsonParse(text) ==
    LET r == ParseValue(text, SkipWs(text, 1))
    IN  IF r.ok /\ SkipWs(text, r.next) = Len(text) + 1 THEN r.v ELSE SyntaxError

(***************************************************************************)
(* parseJsonResponse (part_001 85-92).                                     *)
(***************************************************************************)
Fence == Backquote \o Backquote \o Backquote

parseJsonResponse(response) ==
    LET trimmed == Trim(response)
        inner == IF StartsWith(trimmed, Fence) THEN Split(trimmed, Fence)[2] ELSE trimmed
        cleaned == IF StartsWith(trimmed, Fence) /\ StartsWith(inner, "json")
                   THEN Slice(inner, 4, Len(inner)) ELSE inner
    IN  JsonParse(cleaned)

(***************************************************************************)
(* Inputs of the node.                                                     *)
(***************************************************************************)
CollNames == {"c1"}

DocIds == {"A", "B"}

\* file contents (ASCII Markdown texts)
Contents == {"# T", "# T\nx"}

\* One input item of a batch: the document name resolved at node.ts 468-470,
\* and its binary property: present (bin) with the given content, or missing.
Items ==
    [name : DocIds, content : Contents, bin : {TRUE}]
        \cup [name : DocIds, content : {""}, bin : {FALSE}]

\* characters of the base64 text that are hashed (node.ts 424, 477)
HashPrefixLen == 10000

\* contentHash of a binary input: simpleHash(buffer.toString('base64').slice(0, 10000))
BinaryHash(content) == simpleHash(Slice(Base64(content), 0, HashPrefixLen))

\* contentHash of a text input (node.ts 427)
TextHash(content) == simpleHash(content)

BinaryHashOf == [c \in Contents |-> BinaryHash(c)]

TextHashOf == [c \in Contents |-> TextHash(c)]

\* The DocumentTree an ingest builds for a document: its name and the content
\* it was built from (the outline itself is built by the engine, below).
Tree(docName, content) == [doc_name |-> docName, built_from |-> content]

\* how an awaited ingest (ingestPdf, ingestMarkdown*, part_001 310-360) ends
IngestOutcomes == {"ok", "model call failed", "parse error"}

MissingBinary == "no binary data"

(***************************************************************************)
(* State.                                                                  *)
(***************************************************************************)
VARIABLES
    staticData,     \* workflow static data: collection name -> CollectionData or NoCollection
    now,            \* the clock read by new Date()
    pc,             \* where the running execute() is: idle, loop, ingesting, docIngesting, done
    op,             \* its operation
    collName,       \* its collectionName parameter
    inputType,      \* ingestDocument's inputType parameter
    nItems,         \* items.length of its input (this.getInputData())
    items,          \* the input items read so far: item i is drawn when the loop reads it
    idx,            \* batch loop: the item being processed (1-based)
    seenDocuments,  \* batch loop: the names seen so far
    results,        \* batch loop: the per-document result list
    collection,     \* the handler's local `collection`
    aliased,        \* whether `collection` is the very object held in staticData
    awaited,        \* the ingest promise awaited: none, pending, or how it ended
    ingestCalls,    \* ingest* invocations made by this execution
    ret,            \* what execute() returned: none, success, error, deleted, not deleted
    rerun,          \* this execution repeats the previous syncCollection, same items
    firstResults,   \* when rerun: the result list of that previous execution
    before,         \* staticData as it was when this execution was entered
    \* callLLM (part_001 60-83)
    llmPc,          \* idle, request (about to send), inflight, backoff, returned, thrown
    attempt,        \* the loop variable `attempt`
    llmRequests,    \* chat-completion requests sent by this call
    waits,          \* the delays (ms) this call has slept, in order
    failures,       \* the errors this call has caught, in order
    llmOut,         \* what the call returned (a text) or threw (an error)
    \* the engine function under way (part_001 181-248, 364-485)
    epc,            \* idle, selectDocuments, treeSearch, buildTree, returned, thrown
    documents,      \* retrieve: the documents argument
    mode,           \* retrieve: the mode argument
    docFilter,      \* retrieve: the docFilter argument (NoFilter: undefined or '')
    targetDocs,     \* retrieve: the ids of targetDocs, in order
    target,         \* retrieve: the position in targetDocs of the document being searched
    retrieved,      \* retrieve: the local `results`
    calls,          \* the callLLM invocations made so far: what each asked
    eOut,           \* what the engine function returned or threw
    \* parseJsonResponse on its own (part_001 85-92)
    response,       \* its argument
    parseResult,    \* what it returned or threw, NotParsed before it is called
    \* findNodeById on its own (part_001 426-435)
    findNodes,      \* its argument nodes
    findId,         \* its argument nodeId
    findResult,     \* what it returned, NotCalled before it is called
    \* the builders of a tree on their own (part_001 103-162, 230-247, 327-339)
    nodeIdCounter,  \* the module variable `nodeIdCounter`
    mdContent,      \* ingestMarkdown: the argument content
    mdTree,         \* ingestMarkdown: the local `mdTree`, NotCalled before the call
    rawNodes,       \* assignIds: the argument nodes
    builder,        \* the builder that was called, "none" before
    idStart,        \* the value of the counter when the builder numbered its first node
    built,          \* the tree the builder returned
    \* Markdown ingests under way at the same time (part_001 327-360)
    ingests,        \* for each invocation: where it is, its content and its tree
    \* simpleHash on its own (part_001 489-497)
    hashInput,      \* its argument
    hashed,         \* what it returned, "" before it is called
    \* an ingest with summaries (part_001 252-295, 310-325, 341-360)
    ingestRun,      \* where it is, its pages, its tree, what it asked and was answered
    \* invocations of execute() that are under way at the same time (node.ts 394-552)
    objects,        \* the CollectionData objects there are, each known by its position
    storedRef,      \* the object that staticData holds under the name, 0 for none
    invocations     \* for each invocation: where it is, its operation and its locals

storeVars == <<staticData, now, pc, op, collName, inputType, nItems, items, idx,
               seenDocuments, results, collection, aliased, awaited,
               ingestCalls, ret, rerun, firstResults, before>>

NoCollection == [exists |-> FALSE]

\* createEmptyCollection (node.ts 295-301); updated_at 0 stands for undefined
createEmptyCollection ==
    [exists |-> TRUE, documents |-> EmptyObject, files |-> EmptyObject,
     created_at |-> now, updated_at |-> 0]

\* getCollection (node.ts 269-273)
getCollection(name) == staticData[name]

\* a faulty upsert that stores the tree and forgets the manifest entry
UpsertDocumentOnly(coll, id, tree, hash) ==
    [coll EXCEPT !.documents = Set(@, id, tree)]

\* a faulty upsert that keeps the tree that is stored under the id
KeepsStoredTree(coll, id, tree, hash) ==
    [coll EXCEPT !.documents = IF Has(@, id) THEN @ ELSE Set(@, id, tree),
                 !.files = Set(@, id, [hash |-> hash, indexed_at |-> now])]

\* a faulty upsert that stamps created_at anew
UpsertRestamps(coll, id, tree, hash) ==
    [coll EXCEPT !.documents = Set(@, id, tree),
                 !.files = Set(@, id, [hash |-> hash, indexed_at |-> now]),
                 !.created_at = now]

\* collection.documents[id] = tree; collection.manifest.files[id] = {hash, indexed_at}
Upsert(coll, id, tree, hash) ==
    [coll EXCEPT !.documents = Set(@, id, tree),
                 !.files = Set(@, id, [hash |-> hash, indexed_at |-> now])]

\* the action label of a batch result, read after the upsert (node.ts 515)
ActionLabel(coll, id) == IF Has(coll.documents, id) THEN "updated" ELSE "added"

\* a faulty sync removal that deletes nothing
KeepUnseen(coll, keys, seen) == coll

\* a faulty sync removal that deletes the tree and keeps the manifest entry
RemovesTreeOnly(coll, keys, seen) ==
    [coll EXCEPT !.documents = SelectSeq(@, LAMBDA entry : entry.k \in seen)]

RECURSIVE RemoveUnseen(_, _, _)
\* sync removal (node.ts 528-539) over the keys of documents, in key order
RemoveUnseen(coll, keys, seen) ==
    IF keys = << >> THEN coll
    ELSE LET docId == Head(keys)
             next  == IF docId \in seen THEN coll
                      ELSE [coll EXCEPT !.documents = Delete(@, docId),
                                        !.files = Delete(@, docId)]
         IN  RemoveUnseen(next, Tail(keys), seen)

\* a faulty removal that reports nothing of what it removes
NoRemovedEntries(coll, seen) == << >>

\* the 'removed' entries of the sync removal (node.ts 532-535), in key order
RemovedEntries(coll, seen) ==
    LET gone == SelectSeq(Keys(coll.documents), LAMBDA d : d \notin seen)
    IN  [i \in 1..Len(gone) |-> [documentName |-> gone[i], action |-> "removed", info |-> ""]]

TypeOK ==
    /\ now \in 0..(MaxOps + 1)
    /\ pc \in {"idle", "loop", "ingesting", "docIngesting", "retrieving", "done"}
    /\ idx \in 1..(MaxItems + 1)
    /\ seenDocuments \subseteq DocIds
    /\ aliased \in BOOLEAN
    /\ rerun \in BOOLEAN

StoreInit ==
    /\ staticData = [n \in CollNames |-> NoCollection]
    /\ now = 0
    /\ pc = "idle"
    /\ op = "none"
    /\ collName = "c1"
    /\ inputType = "none"
    /\ nItems = 0
    /\ items = << >>
    /\ idx = 1
    /\ seenDocuments = {}
    /\ results = << >>
    /\ collection = NoCollection
    /\ aliased = FALSE
    /\ awaited = "none"
    /\ ingestCalls = 0
    /\ ret = "none"
    /\ rerun = FALSE
    /\ firstResults = << >>
    /\ before = staticData

llmVars == <<llmPc, attempt, llmRequests, waits, failures, llmOut>>

engineVars == <<epc, documents, mode, docFilter, targetDocs, target, retrieved, calls, eOut>>

findVars == <<findNodes, findId, findResult>>

\* the variables of the functions that are called on their own
buildVars == <<nodeIdCounter, mdContent, mdTree, rawNodes, builder, idStart, built,
               ingests>>

hashVars == <<hashInput, hashed>>

concVars == <<objects, storedRef, invocations>>

parseVars == <<response, parseResult, findVars, buildVars, hashVars, ingestRun, concVars>>

NoFilter == ""

NotParsed == [t |-> "none"]

\* how an asynchronous call ends: with a value or with a raised error
Returned(text) == [ok |-> TRUE, v |-> text]

Threw(error) == [ok |-> FALSE, v |-> error]

LLMInit ==
    /\ llmPc = "idle"
    /\ attempt = 0
    /\ llmRequests = 0
    /\ waits = << >>
    /\ failures = << >>
    /\ llmOut = Returned("")

EngineInit ==
    /\ epc = "idle"
    /\ documents = EmptyObject
    /\ mode = "select"
    /\ docFilter = NoFilter
    /\ targetDocs = << >>
    /\ target = 0
    /\ retrieved = << >>
    /\ calls = << >>
    /\ eOut = << >>

NotCalled == [called |-> FALSE]

FindInit ==
    /\ findNodes = << >>
    /\ findId = ""
    /\ findResult = NotCalled

MaxIngests == 2

NotStarted == [at |-> "idle", content |-> "", structure |-> << >>, awaits |-> 0,
               doc_description |-> ""]

BuildInit ==
    /\ ingests = [i \in 1..MaxIngests |-> NotStarted]
    /\ nodeIdCounter = 0
    /\ mdContent = ""
    /\ mdTree = NotCalled
    /\ rawNodes = << >>
    /\ builder = "none"
    /\ idStart = 0
    /\ built = << >>

HashInit ==
    /\ hashInput = ""
    /\ hashed = ""

NotRun == [at |-> "idle", fn |-> "", pages |-> << >>, structure |-> << >>,
           asked |-> << >>, outstanding |-> {}, replies |-> << >>,
           returned |-> << >>]

SummariesInit == ingestRun = NotRun

\* the invocations that may be under way at the same time
Invokers == {"first", "second"}

NotInvoked == [at |-> "idle", op |-> "none", ref |-> 0, n |-> 0, items |-> << >>,
               idx |-> 1, seen |-> {}, ret |-> "none"]

ConcInit ==
    /\ objects = << >>
    /\ storedRef = 0
    /\ invocations = [p \in Invokers |-> NotInvoked]

ParseInit ==
    /\ response = ""
    /\ parseResult = NotParsed
    /\ FindInit
    /\ BuildInit
    /\ HashInit
    /\ SummariesInit
    /\ ConcInit

CanStart == pc \in {"idle", "done"} /\ now < MaxOps

CanRepeat == pc = "done" /\ now <= MaxOps

\* saveCollection (node.ts 275-278)
saveCollection(name, coll) == [staticData EXCEPT ![name] = coll]

(***************************************************************************)
(* ingestCollection / syncCollection (node.ts 454-552).                    *)
(***************************************************************************)
Entry(name, action, info) == [documentName |-> name, action |-> action, info |-> info]

\* a faulty end of the batch that stamps created_at as it stamps updated_at
StampsCreated(coll, res, seen, o, name, time) ==
    LET swept == IF o = "syncCollection"
                 THEN RemoveUnseen(coll, Keys(coll.documents), seen)
                 ELSE coll
        final == [swept EXCEPT !.updated_at = time, !.created_at = time]
    IN  /\ results' = (IF o = "syncCollection"
                       THEN res \o RemovedEntries(coll, seen) ELSE res)
        /\ collection' = final
        /\ staticData' = saveCollection(name, final)
        /\ aliased' = TRUE
        /\ pc' = "done"
        /\ ret' = "success"

\* After the loop (node.ts 527-552): the sync removal, updated_at, the save
\* and the success result.  No await separates it from the last item.
BatchFinish(coll, res, seen, o, name, time) ==
    LET swept == IF o = "syncCollection"
                 THEN RemoveUnseen(coll, Keys(coll.documents), seen)
                 ELSE coll
        final == [swept EXCEPT !.updated_at = time]
    IN  /\ results' = (IF o = "syncCollection"
                       THEN res \o RemovedEntries(coll, seen) ELSE res)
        /\ collection' = final
        /\ staticData' = saveCollection(name, final)
        /\ aliased' = TRUE
        /\ pc' = "done"
        /\ ret' = "success"

\* The loop goes on to item `next` of n, or past the last item.  `al` tells
\* whether the local collection is the stored object.
BatchContinue(coll, res, seen, next, n, o, name, al, time) ==
    /\ idx' = next
    /\ seenDocuments' = seen
    /\ awaited' = "none"
    /\ IF next > n
       THEN BatchFinish(coll, res, seen, o, name, time)
       ELSE /\ results' = res
            /\ collection' = coll
            /\ staticData' = (IF al THEN [staticData EXCEPT ![name] = coll] ELSE staticData)
            /\ aliased' = al
            /\ pc' = "loop"
            /\ ret' = "none"

\* execute() is entered with operation o on n input items (node.ts 244-263, 455-464)
BatchBegin(o, name, n, again) ==
    /\ now' = now + 1
    /\ op' = o
    /\ collName' = name
    /\ inputType' = "none"
    /\ nItems' = n
    /\ items' = (IF again THEN items ELSE << >>)
    /\ ingestCalls' = 0
    /\ rerun' = again
    /\ firstResults' = (IF again THEN results ELSE << >>)
    /\ before' = staticData
    /\ LET stored == getCollection(name)
       IN  IF stored = NoCollection
           THEN BatchContinue([createEmptyCollection EXCEPT !.created_at = now + 1],
                              << >>, {}, 1, n, o, name, FALSE, now + 1)
           ELSE BatchContinue(stored, << >>, {}, 1, n, o, name, TRUE, now + 1)

BatchStart(o, n) ==
    /\ CanStart
    /\ BatchBegin(o, "c1", n, FALSE)
    /\ UNCHANGED <<llmVars, engineVars, parseVars>>

\* the caller runs the same syncCollection again on the same items
SyncAgain ==
    /\ CanRepeat
    /\ op = "syncCollection" /\ ~rerun
    /\ BatchBegin("syncCollection", collName, nItems, TRUE)
    /\ UNCHANGED <<llmVars, engineVars, parseVars>>

\* sync only: the manifest records this very hash for the document (node.ts 480-482)
\* a faulty change detection that finds every document changed
NeverUnchanged(o, coll, documentName, contentHash) == FALSE

\* a faulty change detection that skips in every batch, not in a sync only
UnchangedInAnyBatch(o, coll, documentName, contentHash) ==
    /\ Has(coll.files, documentName)
    /\ Get(coll.files, documentName).hash = contentHash

\* the sync check (node.ts 480-490): the stored hash is the hash of the content
Unchanged(o, coll, documentName, contentHash) ==
    /\ o = "syncCollection"
    /\ Has(coll.files, documentName)
    /\ Get(coll.files, documentName).hash = contentHash

\* a faulty catch block that gives the whole batch up at the first error
AbortOnIngestError(documentName, message, seen) ==
    /\ pc' = "done"
    /\ ret' = "error"
    /\ UNCHANGED <<idx, seenDocuments, awaited, results, collection, staticData, aliased>>

\* a faulty catch block that drops the document whose ingest failed
DropsOnIngestError(documentName, message, seen) ==
    BatchContinue([collection EXCEPT !.documents = Delete(@, documentName),
                                     !.files = Delete(@, documentName)],
                  Append(results, Entry(documentName, "error", message)),
                  seen, idx + 1, nItems, op, collName, aliased, now)

\* the catch block of the loop (node.ts 518-524): the error becomes a result
\* entry and the loop goes on
OnIngestError(documentName, message, seen) ==
    BatchContinue(collection, Append(results, Entry(documentName, "error", message)),
                  seen, idx + 1, nItems, op, collName, aliased, now)

\* One loop iteration up to the awaited ingest (node.ts 466-505).
BatchItem(item) ==
    /\ pc = "loop"
    /\ items' = (IF idx <= Len(items) THEN items ELSE Append(items, item))
    /\ idx <= Len(items) => item = items[idx]
    /\ LET documentName == item.name
           seen == seenDocuments \cup {documentName}
       IN  IF ~item.bin
           THEN \* assertBinaryData throws (node.ts 475)
                /\ OnIngestError(documentName, MissingBinary, seen)
                /\ UNCHANGED ingestCalls
           ELSE LET contentHash == BinaryHashOf[item.content]
                IN  IF Unchanged(op, collection, documentName, contentHash)
                    THEN /\ BatchContinue(collection,
                                          Append(results, Entry(documentName, "skipped", "unchanged")),
                                          seen, idx + 1, nItems, op, collName, aliased, now)
                         /\ UNCHANGED ingestCalls
                    ELSE /\ pc' = "ingesting"
                         /\ awaited' = "pending"
                         /\ seenDocuments' = seen
                         /\ ingestCalls' = ingestCalls + 1
                         /\ UNCHANGED <<staticData, idx, results, collection, aliased, ret>>
    /\ UNCHANGED <<now, op, collName, inputType, nItems, rerun, firstResults, before>>
    /\ UNCHANGED <<llmVars, engineVars, parseVars>>

\* the awaited ingest ends: it resolves with the tree or rejects with an error
IngestSettles(outcome) ==
    /\ pc \in {"ingesting", "docIngesting", "retrieving"}
    /\ awaited = "pending"
    /\ awaited' = outcome
    /\ UNCHANGED <<staticData, now, pc, op, collName, inputType, nItems, items, idx,
                   seenDocuments, results, collection, aliased, ingestCalls,
                   ret, rerun, firstResults, before>>
    /\ UNCHANGED <<llmVars, engineVars, parseVars>>

\* The loop iteration after the awaited ingest (node.ts 507-524).
BatchIngested ==
    /\ pc = "ingesting"
    /\ awaited \notin {"none", "pending"}
    /\ LET item == items[idx]
           documentName == item.name
       IN  IF awaited = "ok"
           THEN LET coll == Upsert(collection, documentName,
                                   Tree(documentName, item.content),
                                   BinaryHashOf[item.content])
                IN  BatchContinue(coll,
                                  Append(results,
                                         Entry(documentName, ActionLabel(coll, documentName), "")),
                                  seenDocuments, idx + 1, nItems, op, collName, aliased, now)
           ELSE OnIngestError(documentName, awaited, seenDocuments)
    /\ UNCHANGED <<now, op, collName, inputType, nItems, items, ingestCalls, rerun,
                   firstResults, before>>
    /\ UNCHANGED <<llmVars, engineVars, parseVars>>

(***************************************************************************)
(* ingestDocument (node.ts 394-453).                                       *)
(***************************************************************************)
IngestDocumentStart(item, type) ==
    /\ CanStart
    /\ type = "text" => item.bin
    /\ now' = now + 1
    /\ op' = "ingestDocument"
    /\ collName' = "c1"
    /\ inputType' = type
    /\ nItems' = 1
    /\ items' = <<item>>
    /\ idx' = 1
    /\ seenDocuments' = {}
    /\ results' = << >>
    /\ rerun' = FALSE
    /\ firstResults' = << >>
    /\ before' = staticData
    /\ LET stored == getCollection("c1")
       IN  /\ collection' = (IF stored = NoCollection
                             THEN [createEmptyCollection EXCEPT !.created_at = now + 1]
                             ELSE stored)
           /\ aliased' = (stored # NoCollection)
    /\ IF type = "binary" /\ ~item.bin
       THEN \* assertBinaryData throws (node.ts 406)
            /\ pc' = "done"
            /\ ret' = "error"
            /\ awaited' = "none"
            /\ ingestCalls' = 0
       ELSE /\ pc' = "docIngesting"
            /\ ret' = "none"
            /\ awaited' = "pending"
            /\ ingestCalls' = 1
    /\ UNCHANGED staticData
    /\ UNCHANGED <<llmVars, engineVars, parseVars>>

\* a faulty end that saves the local collection also when the ingest failed
SavesOnError ==
    /\ pc = "docIngesting"
    /\ awaited \notin {"none", "pending"}
    /\ awaited' = "none"
    /\ pc' = "done"
    /\ LET item == items[1]
           coll == IF awaited = "ok"
                   THEN [Upsert(collection, item.name, Tree(item.name, item.content),
                                IF inputType = "binary" THEN BinaryHashOf[item.content]
                                ELSE TextHashOf[item.content])
                            EXCEPT !.updated_at = now]
                   ELSE collection
       IN  /\ collection' = coll
           /\ staticData' = saveCollection(collName, coll)
           /\ aliased' = TRUE
           /\ ret' = (IF awaited = "ok" THEN "success" ELSE "error")
    /\ UNCHANGED <<now, op, collName, inputType, nItems, items, idx, seenDocuments,
                   results, ingestCalls, rerun, firstResults, before>>
    /\ UNCHANGED <<llmVars, engineVars, parseVars>>

\* the awaited ingest of ingestDocument has ended (node.ts 435-452, 553-563)
IngestDocumentFinish ==
    /\ pc = "docIngesting"
    /\ awaited \notin {"none", "pending"}
    /\ awaited' = "none"
    /\ pc' = "done"
    /\ LET item == items[1]
           documentName == item.name
           contentHash == IF inputType = "binary"
                          THEN BinaryHashOf[item.content]
                          ELSE TextHashOf[item.content]
       IN  IF awaited = "ok"
           THEN LET coll == [Upsert(collection, documentName,
                                    Tree(documentName, item.content), contentHash)
                                EXCEPT !.updated_at = now]
                IN  /\ collection' = coll
                    /\ staticData' = saveCollection(collName, coll)
                    /\ aliased' = TRUE
                    /\ ret' = "success"
           ELSE /\ ret' = "error"
                /\ UNCHANGED <<collection, staticData, aliased>>
    /\ UNCHANGED <<now, op, collName, inputType, nItems, items, idx, seenDocuments,
                   results, ingestCalls, rerun, firstResults, before>>
    /\ UNCHANGED <<llmVars, engineVars, parseVars>>

(***************************************************************************)
(* deleteCollection (node.ts 280-287, 354-364).                            *)
(***************************************************************************)
DeleteCollection(name) ==
    /\ CanStart
    /\ now' = now + 1
    /\ op' = "deleteCollection"
    /\ collName' = name
    /\ inputType' = "none"
    /\ nItems' = 0
    /\ items' = << >>
    /\ idx' = 1
    /\ seenDocuments' = {}
    /\ results' = << >>
    /\ collection' = NoCollection
    /\ aliased' = FALSE
    /\ awaited' = "none"
    /\ ingestCalls' = 0
    /\ rerun' = FALSE
    /\ firstResults' = << >>
    /\ before' = staticData
    /\ pc' = "done"
    /\ IF staticData[name] # NoCollection
       THEN /\ staticData' = [staticData EXCEPT ![name] = NoCollection]
            /\ ret' = "deleted"
       ELSE /\ ret' = "not deleted"
            /\ UNCHANGED staticData
    /\ UNCHANGED <<llmVars, engineVars, parseVars>>

(***************************************************************************)
(* retrieve (node.ts 365-393).  It reads no clock and stores nothing.     *)
(***************************************************************************)
\* a faulty guard that lets every retrieve through to the engine
SearchesAnyway(stored) == FALSE

\* !collection || Object.keys(collection.documents).length === 0 (node.ts 371)
NothingToSearch(stored) == stored = NoCollection \/ Keys(stored.documents) = << >>

\* a faulty retrieve that, as the ingest operations do, makes the collection
\* that is missing and saves it before it refuses to search it
RetrieveCreates(name) ==
    /\ pc \in {"idle", "done"}
    /\ op' = "retrieve"
    /\ collName' = name
    /\ inputType' = "none"
    /\ nItems' = 0
    /\ items' = << >>
    /\ idx' = 1
    /\ seenDocuments' = {}
    /\ results' = << >>
    /\ ingestCalls' = 0
    /\ rerun' = FALSE
    /\ firstResults' = << >>
    /\ before' = staticData
    /\ LET stored == IF getCollection(name) = NoCollection THEN createEmptyCollection
                     ELSE getCollection(name)
       IN  /\ collection' = stored
           /\ aliased' = TRUE
           /\ staticData' = saveCollection(name, stored)
           /\ IF Keys(stored.documents) = << >>
              THEN pc' = "done" /\ ret' = "error" /\ awaited' = "none"
              ELSE pc' = "retrieving" /\ ret' = "none" /\ awaited' = "pending"
    /\ UNCHANGED now
    /\ UNCHANGED <<llmVars, engineVars, parseVars>>

retrieveOpStart(name) ==
    /\ pc \in {"idle", "done"}
    /\ op' = "retrieve"
    /\ collName' = name
    /\ inputType' = "none"
    /\ nItems' = 0
    /\ items' = << >>
    /\ idx' = 1
    /\ seenDocuments' = {}
    /\ results' = << >>
    /\ ingestCalls' = 0
    /\ rerun' = FALSE
    /\ firstResults' = << >>
    /\ before' = staticData
    /\ LET stored == getCollection(name)
       IN  /\ collection' = stored
           /\ aliased' = (stored # NoCollection)
           /\ IF NothingToSearch(stored)
              THEN \* NodeOperationError (node.ts 372-376)
                   /\ pc' = "done"
                   /\ ret' = "error"
                   /\ awaited' = "none"
              ELSE \* await retrieve(...) of the engine (node.ts 379)
                   /\ pc' = "retrieving"
                   /\ ret' = "none"
                   /\ awaited' = "pending"
    /\ UNCHANGED <<staticData, now>>
    /\ UNCHANGED <<llmVars, engineVars, parseVars>>

\* the engine's retrieve has ended: its results are returned, or its error
\* leaves execute() (node.ts 379-393, 553-563)
retrieveOpFinish ==
    /\ pc = "retrieving"
    /\ awaited \notin {"none", "pending"}
    /\ pc' = "done"
    /\ ret' = (IF awaited = "ok" THEN "success" ELSE "error")
    /\ awaited' = "none"
    /\ UNCHANGED <<staticData, now, op, collName, inputType, nItems, items, idx,
                   seenDocuments, results, collection, aliased, ingestCalls,
                   rerun, firstResults, before>>
    /\ UNCHANGED <<llmVars, engineVars, parseVars>>

Next ==
    \/ \E o \in {"ingestCollection", "syncCollection"}, n \in 0..MaxItems : BatchStart(o, n)
    \/ SyncAgain
    \/ \E item \in Items : BatchItem(item)
    \/ \E outcome \in IngestOutcomes : IngestSettles(outcome)
    \/ BatchIngested
    \/ \E item \in Items, type \in {"binary", "text"} :
          IngestDocumentStart(item, type)
    \/ IngestDocumentFinish
    \/ \E name \in CollNames : DeleteCollection(name)
    \/ \E name \in CollNames : retrieveOpStart(name)
    \/ retrieveOpFinish

vars == <<storeVars, llmVars, engineVars, parseVars>>

Init == StoreInit /\ LLMInit /\ EngineInit /\ ParseInit

Spec == Init /\ [][Next]_vars

(***************************************************************************)
(* Claims about the collection store (specification Spec).                 *)
(***************************************************************************)
Finished == pc \in {"idle", "done"}

BatchDone == pc = "done" /\ op \in {"ingestCollection", "syncCollection"}

Actions(res) == {res[i].action : i \in 1..Len(res)}

Names(its) == {its[i].name : i \in 1..Len(its)}

DocKeys(store, name) ==
    IF store[name] = NoCollection THEN {} ELSE KeySet(store[name].documents)

\* C1: whenever no execution is under way (every ingestDocument,
\* ingestCollection, syncCollection and deleteCollection so far has run to
\* completion, failed per-document ingestions included), the ids that are
\* keys of manifest.files are exactly the ids that are keys of documents.
C1_ManifestKeysAreDocumentKeys ==
    Finished =>
        \A name \in CollNames :
            staticData[name] # NoCollection =>
                KeySet(staticData[name].files) = KeySet(staticData[name].documents)

\* a sync has removed a document and recorded an error, and documents remain
C1_Witness ==
    /\ BatchDone /\ op = "syncCollection"
    /\ {"error", "removed", "updated"} \subseteq Actions(results)
    /\ KeySet(staticData[collName].documents) # {}

\* C2: after a syncCollection pass with no failed ingestion, the collection's
\* ids (documents and manifest.files alike) are exactly the observed ids, and
\* the ids reported 'removed' are exactly the previously stored ids that were
\* not observed.
C2_SyncLeavesExactlyObserved ==
    (BatchDone /\ op = "syncCollection" /\ "error" \notin Actions(results)) =>
        LET observed == Names(items)
            stored == staticData[collName]
        IN  /\ stored # NoCollection
            /\ KeySet(stored.documents) = observed
            /\ KeySet(stored.files) = observed
            /\ {results[i].documentName :
                    i \in {j \in 1..Len(results) : results[j].action = "removed"}}
                   = DocKeys(before, collName) \ observed

\* a clean sync that kept one document unchanged and removed another
C2_Witness ==
    /\ BatchDone /\ op = "syncCollection"
    /\ Actions(results) = {"skipped", "removed"}
    /\ Cardinality(DocKeys(before, collName)) = 2

\* C3: a successful (re-)ingest of a batch reports 'added' when the id was
\* absent from the collection just before the item was processed and
\* 'updated' when it was present.
C3_AddedIffAbsentBefore ==
    [][(pc = "ingesting" /\ awaited = "ok" /\ Len(results') > Len(results)) =>
            results'[Len(results) + 1].action =
                (IF Has(collection.documents, items[idx].name) THEN "updated" ELSE "added")]_vars

NoConflictingItems(its) ==
    \A i, j \in 1..Len(its) :
        (its[i].name = its[j].name /\ its[i].bin /\ its[j].bin) =>
            BinaryHashOf[its[i].content] = BinaryHashOf[its[j].content]

C5_FailureIsRecordedAndLoopGoesOn ==
    /\ [](BatchDone =>
            /\ ret = "success"
            /\ Len(results) >= nItems
            /\ \A i \in 1..nItems :
                  /\ results[i].documentName = items[i].name
                  /\ ~items[i].bin => results[i] = Entry(items[i].name, "error", MissingBinary))
    /\ [][(pc = "ingesting" /\ awaited \in IngestOutcomes \ {"ok"} /\ pc' # "ingesting") =>
            /\ Len(results') >= idx
            /\ \A i \in 1..(idx - 1) : results'[i] = results[i]
            /\ results'[idx] = Entry(items[idx].name, "error", awaited)
            /\ idx' = idx + 1
            /\ IF idx < nItems THEN pc' = "loop" /\ ret' = "none"
                               ELSE pc' = "done" /\ ret' = "success"]_vars

\* a failed model call on the first item, an ingested second item
C5_Witness ==
    /\ BatchDone /\ nItems = 2
    /\ results[1].action = "error" /\ results[1].info = "model call failed"
    /\ results[2].action = "updated"
    /\ ret = "success"

(***************************************************************************)
(* callLLM (part_001 60-83): the retry loop around one chat completion.    *)
(***************************************************************************)
\* for (let attempt = 0; attempt < 5; attempt++)
MaxAttempts == 5

\* if (attempt < 4): the failures that are followed by a wait
RetriedAttempts == 4

\* setTimeout(r, 1000 * (attempt + 1))
BackoffUnit == 1000

\* what a failed request rejects with
LLMErrors == {"429 rate limit", "ECONNRESET"}

\* message.content of the first choice; has = FALSE: no choice, message or content
NoContent == [has |-> FALSE, content |-> ""]

Reply(text) == [has |-> TRUE, content |-> text]

ModelReplies ==
    { Reply("{\"thinking\":\"t\",\"selected_doc_ids\":[\"Y\",\"Z\",\"X\"]}"),
      Reply(" '''json\n{\"thinking\":\"t\",\"node_list\":[\"0001\",\"9999\",\"0000\"]}\n'''\n"),
      Reply("{\"selected_doc_ids\":[\"X\"],\"node_list\":[\"0000\"]}"),
      Reply("{\"structure\":[{\"title\":\"A\",\"start_index\":1,\"end_index\":2,\"nodes\":[{\"title\":\"B\"}]},{\"title\":\"C\",\"end_index\":3}]}"),
      Reply("{\"thinking\":\"nothing fits\"}"),
      Reply("{\"selected_doc_ids\":[\"Y\",\"Y\",\"Z\"],\"node_list\":[\"0002\",\"0002\"]}"),
      Reply("Sorry, I cannot answer."),
      Reply("null"),
      NoContent }

\* a faulty reading of the reply that does not trim
RawContentOf(reply) == reply.content

\* a faulty backoff that waits the same time after every failure
FlatDelay(n) == BackoffUnit

\* 1000 * (attempt + 1), the wait after the failure of attempt n (0-based)
Delay(n) == BackoffUnit * (n + 1)

\* response.choices[0]?.message?.content?.trim() ?? ''
ContentOf(reply) == IF reply.has THEN Trim(reply.content) ELSE ""

\* a caller enters callLLM
CallLLM ==
    /\ llmPc' = "request"
    /\ attempt' = 0
    /\ llmRequests' = 0
    /\ waits' = << >>
    /\ failures' = << >>
    /\ llmOut' = Returned("")

\* a caller that enters no callLLM: nothing of an earlier call is left over
NoLLMCall ==
    /\ llmPc' = "idle"
    /\ attempt' = 0
    /\ llmRequests' = 0
    /\ waits' = << >>
    /\ failures' = << >>
    /\ llmOut' = Returned("")

\* the loop head: the next request goes out (or the loop ends, line 82)
LLMSend ==
    /\ llmPc = "request"
    /\ IF attempt < MaxAttempts
       THEN /\ llmPc' = "inflight"
            /\ llmRequests' = llmRequests + 1
            /\ UNCHANGED llmOut
       ELSE /\ llmPc' = "returned"
            /\ llmOut' = Returned("")
            /\ UNCHANGED llmRequests
    /\ UNCHANGED <<attempt, waits, failures>>
    /\ UNCHANGED <<storeVars, engineVars, parseVars>>

\* the request succeeds (line 73)
LLMReplies(reply) ==
    /\ llmPc = "inflight"
    /\ llmPc' = "returned"
    /\ llmOut' = Returned(ContentOf(reply))
    /\ UNCHANGED <<attempt, llmRequests, waits, failures>>
    /\ UNCHANGED <<storeVars, engineVars, parseVars>>

\* the request fails: the catch block (lines 74-80)
LLMFails(error) ==
    /\ llmPc = "inflight"
    /\ failures' = Append(failures, error)
    /\ IF attempt < RetriedAttempts
       THEN /\ llmPc' = "backoff"
            /\ waits' = Append(waits, Delay(attempt))
            /\ UNCHANGED llmOut
       ELSE /\ llmPc' = "thrown"
            /\ llmOut' = Threw(error)
            /\ UNCHANGED waits
    /\ UNCHANGED <<attempt, llmRequests>>
    /\ UNCHANGED <<storeVars, engineVars, parseVars>>

\* the timer of the wait fires: attempt++ and back to the loop head
LLMWakes ==
    /\ llmPc = "backoff"
    /\ llmPc' = "request"
    /\ attempt' = attempt + 1
    /\ UNCHANGED <<llmRequests, waits, failures, llmOut>>
    /\ UNCHANGED <<storeVars, engineVars, parseVars>>

LLMDone == llmPc \in {"returned", "thrown"}

(***************************************************************************)
(* JavaScript values the engine takes out of a parsed reply: the JSON      *)
(* values above and undefined.                                             *)
(***************************************************************************)
JUndefined == [t |-> "undefined"]

Err(message) == [t |-> "error", message |-> message]

\* ToBoolean(v)
Truthy(v) ==
    CASE v.t \in {"undefined", "null"} -> FALSE
      [] v.t = "bool" -> v.b
      [] v.t = "num" -> v.n # 0
      [] v.t = "str" -> v.s # ""
      [] OTHER -> TRUE

\* v[key] for a key that is no built-in property: a TypeError on null and
\* undefined, undefined on anything that is no object with that key
Prop(v, key) ==
    CASE v.t \in {"undefined", "null"} -> TypeError
      [] v.t = "obj" -> (IF Has(v.m, key) THEN Get(v.m, key) ELSE JUndefined)
      [] OTHER -> JUndefined

\* a || b
OrElse(a, b) == IF Truthy(a) THEN a ELSE b

\* a faulty default that replaces the value that is there
Defaulted(a, b) == b

\* a ?? b
Coalesce(a, b) == IF a.t \in {"undefined", "null"} THEN b ELSE a

\* v.length
Length(v) ==
    CASE v.t = "arr" -> JNum(Len(v.e))
      [] v.t = "str" -> JNum(Len(v.s))
      [] OTHER -> Prop(v, "length")

\* list.includes(id) for a string id: Array.prototype.includes compares with
\* ===, String.prototype.includes looks for a substring, and any other value
\* has no such method
Includes(list, id) ==
    CASE list.t = "arr" -> JBool(\E i \in 1..Len(list.e) : list.e[i] = JStr(id))
      [] list.t = "str" -> JBool(IndexOf(list.s, id, 1) > 0)
      [] OTHER -> TypeError

RECURSIVE ToDecimal(_)
\* String(n) for n >= 0
ToDecimal(n) == IF n < 10 THEN CharAt(Digits, n + 1)
                ELSE ToDecimal(n \div 10) \o CharAt(Digits, (n % 10) + 1)

RECURSIVE Join(_, _)
RECURSIVE ToStr(_)
\* String(v), as a template literal converts a value
ToStr(v) ==
    CASE v.t = "str" -> v.s
      [] v.t = "num" -> ToDecimal(v.n)
      [] v.t = "bool" -> (IF v.b THEN "true" ELSE "false")
      [] v.t = "null" -> "null"
      [] v.t = "undefined" -> "undefined"
      [] v.t = "arr" -> Join(v.e, 1)
      [] OTHER -> "[object Object]"

\* Array.prototype.join(',') from element i on
Join(elems, i) ==
    IF i > Len(elems) THEN ""
    ELSE (IF elems[i].t \in {"null", "undefined"} THEN "" ELSE ToStr(elems[i]))
         \o (IF i < Len(elems) THEN "," ELSE "") \o Join(elems, i + 1)

(***************************************************************************)
(* TreeNode and DocumentTree (part_001 11-24).  An absent summary or       *)
(* doc_description is "", an absent nodes is << >>.                        *)
(***************************************************************************)
TreeNode(id, title, first, last, summary, children) ==
    [node_id |-> id, title |-> title, start_index |-> first, end_index |-> last,
     summary |-> summary, nodes |-> children]

RECURSIVE Repeat(_, _)
Repeat(s, n) == IF n = 0 THEN "" ELSE s \o Repeat(s, n - 1)

\* a stored summary of 504 characters
LongSummary == Repeat("Closes. ", 63)

DocX ==
    [doc_name |-> "x.pdf", doc_description |-> "About X",
     structure |->
        << TreeNode("0000", JStr("Intro"), JNum(1), JNum(2), "Opens.",
                    << TreeNode("0001", JStr("Part"), JNum(1), JNum(1), "", << >>) >>),
           TreeNode("0002", JStr("End"), JNum(3), JNum(3), LongSummary, << >>) >>]

DocY ==
    [doc_name |-> "y.md", doc_description |-> "",
     structure |-> << TreeNode("0000", JStr("Only"), JNum(0), JNum(0), "", << >>) >>]

\* the documents argument of retrieve: collections of zero, one and two documents
DocumentSets ==
    { EmptyObject,
      << [k |-> "X", v |-> DocX] >>,
      << [k |-> "X", v |-> DocX], [k |-> "Y", v |-> DocY] >>,
      << [k |-> "Y", v |-> DocY], [k |-> "X", v |-> DocX] >> }

\* the docFilter argument: none, an id of a document, an id of none, and a
\* name that is no id but that every plain object inherits
DocFilters == {NoFilter, "X", "Y", "Z", "constructor"}

\* names a plain object ({}) inherits from Object.prototype
ObjectPrototypeKeys == {"constructor", "toString", "valueOf", "hasOwnProperty", "__proto__"}

\* what such a name yields: a function or object, truthy, with no doc_name
\* and no structure
Inherited == [inherited |-> TRUE]

\* documents[key] (line 447): an own property, else an inherited one, else undefined
Lookup(o, key) ==
    IF Has(o, key) THEN Get(o, key)
    ELSE IF key \in ObjectPrototypeKeys THEN Inherited
    ELSE JUndefined

Modes == {"select", "all"}

NotFound == [found |-> FALSE]

\* a faulty search that looks at the given nodes and never below them
FindAtTop(nodes, nodeId) ==
    IF \E i \in 1..Len(nodes) : JStr(nodes[i].node_id) = nodeId
    THEN [found |-> TRUE,
          node |-> nodes[CHOOSE i \in 1..Len(nodes) : JStr(nodes[i].node_id) = nodeId]]
    ELSE [found |-> FALSE]

RECURSIVE findNodeById(_, _)
RECURSIVE FindFrom(_, _, _)
\* findNodeById (part_001 426-435): the first node in pre-order whose
\* node_id === nodeId, for a nodeId that is any value of a reply
findNodeById(nodes, nodeId) == FindFrom(nodes, nodeId, 1)

\* the for loop of findNodeById from node i on
FindFrom(nodes, nodeId, i) ==
    IF i > Len(nodes) THEN NotFound
    ELSE IF JStr(nodes[i].node_id) = nodeId THEN [found |-> TRUE, node |-> nodes[i]]
    ELSE LET below == findNodeById(nodes[i].nodes, nodeId)
         IN  IF below.found THEN below ELSE FindFrom(nodes, nodeId, i + 1)

(***************************************************************************)
(* buildTreeFromPages (part_001 181-248).                                   *)
(***************************************************************************)
\* v > 0 for the values a length can be in the replies of the model
Positive(v) == v.t = "num" /\ v.n > 0

\* a faulty id, not padded
Unpadded(counter) == ToDecimal(counter)

\* String(nodeIdCounter++).padStart(4, '0') (lines 149, 235), the value of the
\* counter before the increment given
NodeId(counter) == PadStart(ToDecimal(counter), 4, "0")

RECURSIVE assignIds(_, _)
RECURSIVE AssignFrom(_, _, _, _)
\* assignIds (lines 231-245) with idCounter passed along: nodes.map(...),
\* which is a TypeError when nodes is no array
assignIds(nodes, idCounter) ==
    IF nodes.t # "arr" THEN [ok |-> FALSE, v |-> TypeError]
    ELSE AssignFrom(nodes.e, 1, idCounter, << >>)

\* the callback of the map, from element i on
AssignFrom(elems, i, idCounter, acc) ==
    IF i > Len(elems) THEN [ok |-> TRUE, v |-> acc, next |-> idCounter]
    ELSE LET n == elems[i]
         IN  IF n.t = "null" THEN [ok |-> FALSE, v |-> TypeError]
             ELSE LET kids == Prop(n, "nodes")
                      sub == IF Truthy(kids) /\ Positive(Length(kids))
                             THEN assignIds(kids, idCounter + 1)
                             ELSE [ok |-> TRUE, v |-> << >>, next |-> idCounter + 1]
                      node == TreeNode(NodeId(idCounter),
                                       Prop(n, "title"),
                                       Coalesce(Prop(n, "start_index"), JNum(0)),
                                       Coalesce(Prop(n, "end_index"), JNum(0)),
                                       "", sub.v)
                  IN  IF ~sub.ok THEN sub
                      ELSE AssignFrom(elems, i + 1, sub.next, Append(acc, node))

\* the pages argument: the page texts of a document
PageSets == { << "one" >>, << "one", "two", "three" >> }

\* what a callLLM invocation asks: the function that asks and what it asks about
Prompt(fn, about) == [fn |-> fn, about |-> about]

Running == epc \in {"selectDocuments", "treeSearch", "buildTree"}

\* a faulty error path that returns an empty result instead of throwing
Swallows(error) ==
    /\ epc' = "returned"
    /\ eOut' = << >>
    /\ UNCHANGED <<documents, mode, docFilter, targetDocs, target, retrieved, calls>>
    /\ UNCHANGED llmVars

\* a faulty error path that returns the results there are so far
ReturnsPartial(error) ==
    /\ epc' = "returned"
    /\ eOut' = retrieved
    /\ UNCHANGED <<documents, mode, docFilter, targetDocs, target, retrieved, calls>>
    /\ UNCHANGED llmVars

\* the function under way throws, or lets the error of its callLLM through
Throws(error) ==
    /\ epc' = "thrown"
    /\ eOut' = error
    /\ UNCHANGED <<documents, mode, docFilter, targetDocs, target, retrieved, calls>>
    /\ UNCHANGED llmVars

buildTreeFromPagesStart(pages) ==
    /\ ~Running
    /\ epc' = "buildTree"
    /\ CallLLM
    /\ calls' = << Prompt("buildTreeFromPages", pages) >>
    /\ documents' = EmptyObject
    /\ mode' = "select"
    /\ docFilter' = NoFilter
    /\ targetDocs' = << >>
    /\ target' = 0
    /\ retrieved' = << >>
    /\ eOut' = << >>
    /\ UNCHANGED <<storeVars, parseVars>>

\* lines 227-247: the reply is parsed and the ids are assigned
buildTreeFromPagesResume ==
    /\ epc = "buildTree"
    /\ LLMDone
    /\ IF ~llmOut.ok THEN Throws(Err(llmOut.v))
       ELSE LET parsed == parseJsonResponse(llmOut.v)
                structure == Prop(parsed, "structure")
                tree == assignIds(OrElse(structure, JArr(<< >>)), 0)
            IN  IF IsError(parsed) THEN Throws(parsed)
                ELSE IF IsError(structure) THEN Throws(structure)
                ELSE IF ~tree.ok THEN Throws(tree.v)
                ELSE /\ epc' = "returned"
                     /\ eOut' = tree.v
                     /\ UNCHANGED <<documents, mode, docFilter, targetDocs, target,
                                    retrieved, calls>>
                     /\ UNCHANGED llmVars
    /\ UNCHANGED <<storeVars, parseVars>>

(***************************************************************************)
(* retrieve with selectDocuments and treeSearch (part_001 364-485).        *)
(***************************************************************************)
\* docsInfo of selectDocuments (lines 369-373)
DocsInfo(docs) ==
    [i \in 1..Len(docs) |->
        [doc_id |-> docs[i].k, doc_name |-> docs[i].v.doc_name,
         doc_description |-> IF docs[i].v.doc_description # ""
                             THEN docs[i].v.doc_description ELSE "No description"]]

\* the for loop of retrieve at position i of the target ids: the next
\* treeSearch is entered, or the results are returned
SearchFrom(docs, ids, i, res, asked, fresh) ==
    /\ targetDocs' = ids
    /\ retrieved' = res
    /\ IF i <= Len(ids)
       THEN /\ epc' = "treeSearch"
            /\ target' = i
            /\ CallLLM
            /\ calls' = Append(asked, Prompt("treeSearch", Lookup(docs, ids[i])))
            /\ eOut' = << >>
       ELSE /\ epc' = "returned"
            /\ target' = 0
            /\ eOut' = res
            /\ calls' = asked
            /\ IF fresh THEN NoLLMCall ELSE UNCHANGED llmVars

\* a faulty retrieve that never looks at its docFilter
IgnoresFilter(f) == FALSE

\* if (docFilter), line 446: undefined and '' are no filter
UsesFilter(f) == f # NoFilter

retrieveStart(docs, m, f) ==
    /\ ~Running
    /\ documents' = docs
    /\ mode' = m
    /\ docFilter' = f
    /\ IF UsesFilter(f)
       THEN IF Lookup(docs, f) = JUndefined
            THEN /\ epc' = "thrown"
                 /\ eOut' = Err("Document not found: " \o f)
                 /\ targetDocs' = << >>
                 /\ target' = 0
                 /\ retrieved' = << >>
                 /\ calls' = << >>
                 /\ NoLLMCall
            ELSE SearchFrom(docs, << f >>, 1, << >>, << >>, TRUE)
       ELSE IF m = "select"
            THEN /\ epc' = "selectDocuments"
                 /\ CallLLM
                 /\ calls' = << Prompt("selectDocuments", DocsInfo(docs)) >>
                 /\ targetDocs' = << >>
                 /\ target' = 0
                 /\ retrieved' = << >>
                 /\ eOut' = << >>
            ELSE SearchFrom(docs, Keys(docs), 1, << >>, << >>, TRUE)
    /\ UNCHANGED <<storeVars, parseVars>>

\* a faulty filter that gives the documents in the order the model listed them
InListedOrder(ids, selectedIds, i) ==
    IF selectedIds.t # "arr" THEN << >>
    ELSE SelectSeq([k \in 1..Len(selectedIds.e) |->
                       IF selectedIds.e[k].t = "str" THEN selectedIds.e[k].s ELSE ""],
                   LAMBDA id : \E j \in 1..Len(ids) : ids[j] = id)

\* a faulty filter that keeps every document, selected or not
KeepsAll(ids, selectedIds, i) == ids

\* Object.entries(documents).filter(([id]) => selectedIds.includes(id))
RECURSIVE FilterSelected(_, _, _)
FilterSelected(ids, selectedIds, i) ==
    IF i > Len(ids) THEN << >>
    ELSE (IF Includes(selectedIds, ids[i]).b THEN << ids[i] >> ELSE << >>)
         \o FilterSelected(ids, selectedIds, i + 1)

\* selectDocuments returns (lines 389-391) and retrieve filters (line 451)
selectDocumentsResume ==
    /\ epc = "selectDocuments"
    /\ LLMDone
    /\ IF ~llmOut.ok THEN Throws(Err(llmOut.v))
       ELSE LET parsed == parseJsonResponse(llmOut.v)
                field == Prop(parsed, "selected_doc_ids")
                selectedIds == OrElse(field, JArr(<< >>))
            IN  IF IsError(parsed) THEN Throws(parsed)
                ELSE IF IsError(field) THEN Throws(field)
                ELSE IF documents # EmptyObject /\ selectedIds.t \notin {"arr", "str"}
                THEN Throws(TypeError)
                ELSE /\ SearchFrom(documents,
                                   FilterSelected(Keys(documents), selectedIds, 1),
                                   1, << >>, calls, FALSE)
                     /\ UNCHANGED <<documents, mode, docFilter>>
    /\ UNCHANGED <<storeVars, parseVars>>

\* the number of characters of a summary that a result carries
SummaryLimit == 500

\* a faulty summary, not cut
WholeSummary(node) == node.summary

\* (node.summary || '').slice(0, 500), an absent summary being ""
Summary(node) == Slice(node.summary, 0, SummaryLimit)

\* a faulty map that keeps an entry for every requested id, matched or not
UnmatchedKept(doc, nodeIds, i) ==
    [k \in 1..Len(nodeIds) |->
        [node_id |-> nodeIds[k], title |-> JUndefined, pages |-> "", summary |-> ""]]

\* the map callback of lines 462-472 over node_ids, with the nulls filtered out
RECURSIVE FoundNodes(_, _, _)
FoundNodes(doc, nodeIds, i) ==
    IF i > Len(nodeIds) THEN << >>
    ELSE LET hit == findNodeById(doc.structure, nodeIds[i])
         IN  (IF hit.found
              THEN << [node_id |-> nodeIds[i],
                       title |-> hit.node.title,
                       pages |-> ToStr(hit.node.start_index) \o "-"
                                 \o ToStr(hit.node.end_index),
                       summary |-> Summary(hit.node)] >>
              ELSE << >>)
             \o FoundNodes(doc, nodeIds, i + 1)

\* treeSearch returns (lines 418-423), the result is pushed (lines 459-481)
treeSearchResume ==
    /\ epc = "treeSearch"
    /\ LLMDone
    /\ IF ~llmOut.ok THEN Throws(Err(llmOut.v))
       ELSE LET parsed == parseJsonResponse(llmOut.v)
                field == Prop(parsed, "node_list")
                thinking == OrElse(Prop(parsed, "thinking"), JStr(""))
                node_ids == OrElse(field, JArr(<< >>))
                docId == targetDocs[target]
                doc == Lookup(documents, docId)
            IN  IF IsError(parsed) THEN Throws(parsed)
                ELSE IF IsError(field) THEN Throws(field)
                ELSE IF node_ids.t # "arr" THEN Throws(TypeError)
                \* findNodeById iterates doc.structure, which is undefined
                ELSE IF doc = Inherited /\ node_ids.e # << >> THEN Throws(TypeError)
                ELSE /\ SearchFrom(documents, targetDocs, target + 1,
                                   Append(retrieved,
                                          [doc_id |-> docId,
                                           doc_name |-> IF doc = Inherited THEN JUndefined
                                                        ELSE doc.doc_name,
                                           thinking |-> thinking,
                                           node_ids |-> node_ids,
                                           nodes |-> IF doc = Inherited THEN << >>
                                                     ELSE FoundNodes(doc, node_ids.e, 1)]),
                                   calls, FALSE)
                     /\ UNCHANGED <<documents, mode, docFilter>>
    /\ UNCHANGED <<storeVars, parseVars>>

NextEngine ==
    \/ \E docs \in DocumentSets, m \in Modes, f \in DocFilters : retrieveStart(docs, m, f)
    \/ selectDocumentsResume
    \/ treeSearchResume
    \/ \E pages \in PageSets : buildTreeFromPagesStart(pages)
    \/ buildTreeFromPagesResume
    \/ LLMSend
    \/ \E reply \in ModelReplies : LLMReplies(reply)
    \/ \E error \in LLMErrors : LLMFails(error)
    \/ LLMWakes

SpecEngine == Init /\ [][NextEngine]_vars

(***************************************************************************)
(* parseJsonResponse applied to one response (part_001 85-92).             *)
(***************************************************************************)
\* JSON texts: objects, arrays and scalars, with and without inner
\* whitespace, two of them with a fence inside a string
JsonTexts ==
    { "{}", "[]", "12", "true", "null", "\"x\"",
      "{\"a\":1}", "[1, 2]", " { \"a\" : [ ] } ",
      "{\"node_list\":[\"0001\",\"0002\"]}",
      "{\"thinking\":\"t\",\"selected_doc_ids\":[]}",
      "{\"a\":\"" \o Fence \o "\"}",
      "[\"" \o Fence \o "json\"]" }

\* texts that are no JSON
NonJsonTexts == { "", "Sorry.", "{", "[1,2", "{\"a\":}", "{a:1}", "01", "json", "{} {}" }

Wrappings == {"bare", "fence", "fence json", "fence lines", "fence json lines", "padded fence json"}

\* the text J alone, or between one leading and one trailing fence, with or
\* without the json tag after the leading fence
Wrap(J, w) ==
    CASE w = "bare" -> J
      [] w = "fence" -> Fence \o J \o Fence
      [] w = "fence json" -> Fence \o "json" \o J \o Fence
      [] w = "fence lines" -> Fence \o "\n" \o J \o "\n" \o Fence
      [] w = "fence json lines" -> Fence \o "json\n" \o J \o "\n" \o Fence
      [] w = "padded fence json" -> " \n" \o Fence \o "json\n" \o J \o "\n" \o Fence \o "\n"

Responses == { Wrap(J, w) : J \in JsonTexts \cup NonJsonTexts, w \in Wrappings }

InitParse ==
    /\ StoreInit /\ LLMInit /\ EngineInit
    /\ response \in Responses
    /\ parseResult = NotParsed
    /\ FindInit
    /\ BuildInit
    /\ HashInit
    /\ SummariesInit
    /\ ConcInit

ParseResponse ==
    /\ parseResult = NotParsed
    /\ parseResult' = parseJsonResponse(response)
    /\ UNCHANGED <<response, findVars, buildVars, hashVars, ingestRun, concVars,
                   storeVars, llmVars, engineVars>>

NextParse == ParseResponse

SpecParse == InitParse /\ [][NextParse]_vars

(***************************************************************************)
(* findNodeById on its own: a forest and an id come in, the function is     *)
(* called once.                                                            *)
(***************************************************************************)
MaxDepth == 3

MaxForest == 2

NodeIds == {"0000", "0001"}

\* the ids asked for: ids of nodes, and one that no node has
AskedIds == NodeIds \cup {"0002"}

RECURSIVE Trees(_)
\* the trees of at most d levels; a node's title tells its level from below
Trees(d) ==
    IF d = 0 THEN {}
    ELSE { TreeNode(id, JStr(ToDecimal(d)), JNum(0), JNum(0), "", kids) :
             id \in NodeIds,
             kids \in {<< >>} \cup { <<t>> : t \in Trees(d - 1) } }

RECURSIVE Forests(_)
\* the sequences of at most n trees
Forests(n) ==
    IF n = 0 THEN {<< >>}
    ELSE Forests(n - 1)
         \cup { <<t>> \o f : t \in Trees(MaxDepth),
                             f \in { g \in Forests(n - 1) : Len(g) = n - 1 } }

InitFind ==
    /\ StoreInit /\ LLMInit /\ EngineInit
    /\ response = ""
    /\ parseResult = NotParsed
    /\ findNodes \in Forests(MaxForest)
    /\ findId \in AskedIds
    /\ findResult = NotCalled
    /\ BuildInit
    /\ HashInit
    /\ SummariesInit
    /\ ConcInit

FindNode ==
    /\ findResult = NotCalled
    /\ findResult' = findNodeById(findNodes, JStr(findId))
    /\ UNCHANGED <<findNodes, findId, response, parseResult, buildVars, hashVars, ingestRun, concVars,
                   storeVars, llmVars, engineVars>>

NextFind == FindNode

SpecFind == InitFind /\ [][NextFind]_vars

(***************************************************************************)
(* Markdown to tree (part_001 96-162, 327-339).                            *)
(***************************************************************************)
MdNode(title, level) == [title |-> title, level |-> level, content |-> "", children |-> << >>]

NoMatch == [matched |-> FALSE]

RECURSIVE HashRun(_, _)
\* the number of "#" characters from position i on
HashRun(line, i) == IF CharAt(line, i) = "#" THEN 1 + HashRun(line, i + 1) ELSE 0

\* a character that "." of a regular expression does not match
IsLineTerminator(ch) == ch \in {"\n", "\r"}

\* line.match(/^(#{1,6})\s+(.+)/) (line 110) with level and title of lines 118-119
HeadingOf(line) ==
    LET hashes == HashRun(line, 1)
        rest == SubSeq(line, hashes + 1, Len(line))
        after == TrimStart(rest)
        stop == IndexOf(after, "\r", 1)
    IN  IF hashes < 1 \/ hashes > 6 \/ Len(after) = Len(rest) THEN NoMatch
        ELSE IF after # ""
        THEN [matched |-> TRUE, level |-> hashes,
              title |-> Trim(IF stop = 0 THEN after ELSE SubSeq(after, 1, stop - 1))]
        \* only white space follows: \s+ gives back what (.+) needs
        ELSE IF \E j \in 2..Len(rest) : ~IsLineTerminator(CharAt(rest, j))
        THEN [matched |-> TRUE, level |-> hashes, title |-> ""]
        ELSE NoMatch

RECURSIVE JoinWith(_, _)
\* Array.prototype.join(sep) of strings
JoinWith(parts, sep) ==
    IF parts = << >> THEN ""
    ELSE IF Len(parts) = 1 THEN parts[1]
    ELSE parts[1] \o sep \o JoinWith(Tail(parts), sep)

\* stack[stack.length - 1].content += currentContent.join('\n') (lines 114, 134)
Flush(stack, currentContent) ==
    [stack EXCEPT ![Len(stack)].content = @ \o JoinWith(currentContent, "\n")]

\* stack.pop() (line 124).  The stack holds the nodes that are still open, each
\* with the children it has so far; the node that is popped takes its place,
\* as it is then, among the children of the node below it, where line 126
\* had put it when it was pushed.
Pop(stack) ==
    LET n == Len(stack)
    IN  SubSeq(stack, 1, n - 2)
        \o << [stack[n - 1] EXCEPT !.children = Append(@, stack[n])] >>

\* a faulty loop that stops at a node of the same level (> for >=)
RECURSIVE PopDeeper(_, _)
PopDeeper(stack, level) ==
    IF Len(stack) > 1 /\ stack[Len(stack)].level > level
    THEN PopDeeper(Pop(stack), level) ELSE stack

RECURSIVE PopWhile(_, _)
\* the while loop of lines 123-125
PopWhile(stack, level) ==
    IF Len(stack) > 1 /\ stack[Len(stack)].level >= level
    THEN PopWhile(Pop(stack), level) ELSE stack

RECURSIVE Root(_)
\* the root as it is returned (line 137), every open node in its place
Root(stack) == IF Len(stack) > 1 THEN Root(Pop(stack)) ELSE stack[1]

RECURSIVE ParseLines(_, _, _, _)
\* the for loop of lines 109-131 from line i on, and lines 133-137
ParseLines(lines, i, stack, currentContent) ==
    IF i > Len(lines) THEN Root(Flush(stack, currentContent))
    ELSE LET match == HeadingOf(lines[i])
         IN  IF match.matched
             THEN ParseLines(lines, i + 1,
                             Append(PopWhile(Flush(stack, currentContent), match.level),
                                    MdNode(match.title, match.level)),
                             << >>)
             ELSE ParseLines(lines, i + 1, stack, Append(currentContent, lines[i]))

parseMarkdownToTree(markdown) ==
    ParseLines(Split(markdown, "\n"), 1, << MdNode("Document", 0) >>, << >>)

RECURSIVE mdNodeToTreeNode(_, _)
RECURSIVE ConvertFrom(_, _, _, _)
\* mdNodeToTreeNode (lines 143-162) with nodeIdCounter passed along: the
\* nodes it returns and the counter as it leaves it
mdNodeToTreeNode(node, counter) == ConvertFrom(node.children, 1, counter, << >>)

\* the for loop of lines 146-159 from child i on
ConvertFrom(children, i, counter, treeNodes) ==
    IF i > Len(children) THEN [v |-> treeNodes, next |-> counter]
    ELSE LET child == children[i]
             below == IF Len(child.children) > 0
                      THEN mdNodeToTreeNode(child, counter + 1)
                      ELSE [v |-> << >>, next |-> counter + 1]
             treeNode == TreeNode(NodeId(counter), JStr(child.title),
                                  JNum(0), JNum(0), "", below.v)
         IN  ConvertFrom(children, i + 1, below.next, Append(treeNodes, treeNode))

(***************************************************************************)
(* The builders of a tree on their own.  nodeIdCounter is a variable of    *)
(* the module: a call finds it as the calls before it left it.  A          *)
(* conversion that starts at a counter other than 0 is the rest of a       *)
(* conversion that has numbered that many nodes already: mdNodeToTreeNode  *)
(* and assignIds run once for each list of children, the counter being at  *)
(* the number of the nodes that come before.                               *)
(***************************************************************************)
MaxLines == 4

\* headings of three levels, text, and lines that look like headings: no
\* space after the "#", seven "#", and white space only after the "#"
MdLines == {"# A", "## B", "### C", "t", "#x", "####### D", "#  "}

RECURSIVE LineSeqs(_)
LineSeqs(n) ==
    IF n = 0 THEN {<< >>}
    ELSE LineSeqs(n - 1)
         \cup { Append(ls, l) : ls \in { m \in LineSeqs(n - 1) : Len(m) = n - 1 },
                                l \in MdLines }

Markdowns == { JoinWith(ls, "\n") : ls \in LineSeqs(MaxLines) }

\* the structure of a reply as parseJsonResponse returns it
RawStructures ==
    { Prop(parseJsonResponse(text), "structure") :
        text \in { "{\"structure\":[{\"title\":\"A\",\"nodes\":[{\"title\":\"B\",\"nodes\":[{\"title\":\"C\"}]}]},{\"title\":\"D\"}]}",
                   "{\"structure\":[{\"title\":\"A\"},{\"title\":\"B\",\"nodes\":[]}]}",
                   "{\"structure\":[{\"title\":\"A\",\"nodes\":[null]}]}",
                   "{\"structure\":[{\"title\":\"A\",\"start_index\":7,\"end_index\":2,\"nodes\":[{\"title\":\"B\",\"start_index\":0,\"end_index\":-1},{\"start_index\":null,\"nodes\":[]}]},{\"title\":\"D\",\"start_index\":1,\"end_index\":1}]}" } }

\* the counter before a call: 0, and two short of the first number of five digits
Counters == {0, 9998}

InitBuild ==
    /\ StoreInit /\ LLMInit /\ EngineInit
    /\ response = ""
    /\ parseResult = NotParsed
    /\ FindInit
    /\ ingests = [i \in 1..MaxIngests |-> NotStarted]
    /\ nodeIdCounter \in Counters
    /\ mdContent = ""
    /\ mdTree = NotCalled
    /\ rawNodes = << >>
    /\ builder = "none"
    /\ idStart = 0
    /\ built = << >>
    /\ HashInit
    /\ SummariesInit
    /\ ConcInit

\* ingestMarkdown (lines 327-339)
ingestMarkdown ==
    /\ builder = "none"
    /\ \E content \in Markdowns :
          LET parsed == parseMarkdownToTree(content)
              structure == mdNodeToTreeNode(parsed, 0)
          IN  /\ mdContent' = content
              /\ mdTree' = parsed
              /\ built' = structure.v
              /\ nodeIdCounter' = structure.next
    /\ idStart' = 0
    /\ builder' = "ingestMarkdown"
    /\ UNCHANGED <<rawNodes, ingests, response, parseResult, findVars, hashVars, ingestRun, concVars,
                   storeVars, llmVars, engineVars>>

\* mdNodeToTreeNode (lines 143-162) from the counter as it is
ConvertNodes ==
    /\ builder = "none"
    /\ \E content \in Markdowns :
          LET parsed == parseMarkdownToTree(content)
              structure == mdNodeToTreeNode(parsed, nodeIdCounter)
          IN  /\ mdContent' = content
              /\ mdTree' = parsed
              /\ built' = structure.v
              /\ nodeIdCounter' = structure.next
    /\ idStart' = nodeIdCounter
    /\ builder' = "mdNodeToTreeNode"
    /\ UNCHANGED <<rawNodes, ingests, response, parseResult, findVars, hashVars, ingestRun, concVars,
                   storeVars, llmVars, engineVars>>

\* assignIds (lines 231-245) from a value of the idCounter of its builder
AssignIds ==
    /\ builder = "none"
    /\ \E nodes \in RawStructures, idCounter \in Counters :
          LET assigned == assignIds(nodes, idCounter)
          IN  /\ rawNodes' = nodes
              /\ idStart' = idCounter
              /\ IF assigned.ok
                 THEN built' = assigned.v /\ builder' = "assignIds"
                 ELSE built' = << >> /\ builder' = "thrown"
    /\ UNCHANGED <<nodeIdCounter, mdContent, mdTree, ingests, response, parseResult,
                   findVars, hashVars, ingestRun, concVars, storeVars, llmVars, engineVars>>

NextBuild ==
    \/ ingestMarkdown
    \/ ConvertNodes
    \/ AssignIds

SpecBuild == InitBuild /\ [][NextBuild]_vars

(***************************************************************************)
(* Markdown ingests that run at the same time.  ingestMarkdown runs to its  *)
(* end without a pause; ingestMarkdownWithSummaries pauses at each await    *)
(* (lines 352-353, 271, 275), and there another invocation may start or go   *)
(* on.  A callLLM that is awaited ends with a text or, its attempts used    *)
(* up, with an error.  nodeIdCounter is the one variable they all share.    *)
(***************************************************************************)
IngestContents == {"# A\n## B\ntext\n# C", "## B", "no heading"}

SummaryTexts == {"About it."}

\* a faulty start that leaves the counter at what it was
CounterKept(counter) == counter

\* nodeIdCounter = 0 (lines 331, 346)
CounterReset(counter) == 0

RECURSIVE Size(_)
\* the number of the nodes of a forest
Size(forest) ==
    IF forest = << >> THEN 0 ELSE 1 + Size(Head(forest).nodes) + Size(Tail(forest))

\* a faulty assignment that loses the summary
SummaryDropped(forest, k, text) == forest

RECURSIVE Summarised(_, _, _)
\* node.summary = ... (line 271) for the k-th node that generateSummaries
\* comes to: a node first, then the nodes below it, then the nodes after it
Summarised(forest, k, text) ==
    IF forest = << >> THEN << >>
    ELSE LET node == Head(forest)
             below == Size(node.nodes)
         IN  IF k = 1 THEN << [node EXCEPT !.summary = text] >> \o Tail(forest)
             ELSE IF k <= 1 + below
             THEN << [node EXCEPT !.nodes = Summarised(@, k - 1, text)] >> \o Tail(forest)
             ELSE << node >> \o Summarised(Tail(forest), k - 1 - below, text)

InitIngests ==
    /\ StoreInit /\ LLMInit /\ EngineInit
    /\ response = ""
    /\ parseResult = NotParsed
    /\ FindInit
    /\ BuildInit
    /\ HashInit
    /\ SummariesInit
    /\ ConcInit

OthersUnchanged ==
    UNCHANGED <<mdContent, mdTree, rawNodes, builder, idStart, built, hashVars, ingestRun, concVars,
                response, parseResult, findVars, storeVars, llmVars, engineVars>>

\* lines 331-333 and 346-348, and what follows until the function returns or
\* pauses: ingestMarkdown returns (lines 335-338), ingestMarkdownWithSummaries
\* awaits the first summary or, in a tree without nodes, the description
IngestStart(i, content, withSummaries) ==
    /\ ingests[i].at = "idle"
    /\ LET structure == mdNodeToTreeNode(parseMarkdownToTree(content),
                                         CounterReset(nodeIdCounter))
       IN  /\ nodeIdCounter' = structure.next
           /\ ingests' = [ingests EXCEPT ![i] =
                  [at |-> IF ~withSummaries THEN "returned"
                          ELSE IF structure.v = << >> THEN "description"
                          ELSE "summaries",
                   content |-> content,
                   structure |-> structure.v,
                   awaits |-> IF withSummaries /\ structure.v # << >> THEN 1 ELSE 0,
                   doc_description |-> ""]]
    /\ OthersUnchanged

\* the callLLM of line 271 returns: the summary is stored, and the next node
\* is asked about or, after the last node, the description (line 353)
SummaryArrives(i, text) ==
    /\ ingests[i].at = "summaries"
    /\ LET last == ingests[i].awaits = Size(ingests[i].structure)
       IN  ingests' = [ingests EXCEPT
              ![i].structure = Summarised(@, ingests[i].awaits, text),
              ![i].awaits = IF last THEN 0 ELSE @ + 1,
              ![i].at = IF last THEN "description" ELSE "summaries"]
    /\ UNCHANGED nodeIdCounter
    /\ OthersUnchanged

\* the callLLM of line 294 returns: the document is returned (lines 355-359)
DescriptionArrives(i, text) ==
    /\ ingests[i].at = "description"
    /\ ingests' = [ingests EXCEPT ![i].doc_description = text, ![i].at = "returned"]
    /\ UNCHANGED nodeIdCounter
    /\ OthersUnchanged

\* a callLLM that is awaited throws: the ingest throws
IngestFails(i) ==
    /\ ingests[i].at \in {"summaries", "description"}
    /\ ingests' = [ingests EXCEPT ![i].at = "thrown", ![i].awaits = 0]
    /\ UNCHANGED nodeIdCounter
    /\ OthersUnchanged

NextIngests ==
    \/ \E i \in 1..MaxIngests, content \in IngestContents, withSummaries \in BOOLEAN :
          IngestStart(i, content, withSummaries)
    \/ \E i \in 1..MaxIngests, text \in SummaryTexts : SummaryArrives(i, text)
    \/ \E i \in 1..MaxIngests, text \in SummaryTexts : DescriptionArrives(i, text)
    \/ \E i \in 1..MaxIngests : IngestFails(i)

SpecIngests == InitIngests /\ [][NextIngests]_vars

(***************************************************************************)
(* simpleHash on its own: a string comes in, the function is called once.  *)
(***************************************************************************)
MaxHashLen == 3

HashChars == {"a", "Z", "~", " "}

RECURSIVE Strings(_)
\* the strings of at most n of the characters
Strings(n) ==
    IF n = 0 THEN {""}
    ELSE Strings(n - 1)
         \cup { str \o ch : str \in { t \in Strings(n - 1) : Len(t) = n - 1 },
                            ch \in HashChars }

\* a string that leaves the accumulator at -2^31
MinIntString == "xfjfxtf"

\* short strings, strings long enough for the accumulator to wrap around, and
\* the string of the lowest accumulator
HashInputs ==
    Strings(MaxHashLen) \cup { Repeat(str, 7) : str \in Strings(MaxHashLen) }
        \cup {MinIntString}

InitHash ==
    /\ StoreInit /\ LLMInit /\ EngineInit
    /\ response = ""
    /\ parseResult = NotParsed
    /\ FindInit
    /\ BuildInit
    /\ hashInput \in HashInputs
    /\ hashed = ""
    /\ SummariesInit
    /\ ConcInit

Hash ==
    /\ hashed = ""
    /\ hashed' = simpleHash(hashInput)
    /\ UNCHANGED <<hashInput, response, parseResult, findVars, buildVars, ingestRun, concVars,
                   storeVars, llmVars, engineVars>>

NextHash == Hash

SpecHash == InitHash /\ [][NextHash]_vars

(***************************************************************************)
(* The collection store under several names: listCollections,              *)
(* collectionStatus, deleteCollection and the operations that save         *)
(* (node.ts 269-364).  The names of a listing are kept as a set: the order  *)
(* of the keys of the static data is not kept.                             *)
(***************************************************************************)
StoreNames == {"c1", "c2"}

InitStore ==
    /\ staticData = [n \in StoreNames |-> NoCollection]
    /\ now = 0
    /\ pc = "idle"
    /\ op = "none"
    /\ collName = "c1"
    /\ inputType = "none"
    /\ nItems = 0
    /\ items = << >>
    /\ idx = 1
    /\ seenDocuments = {}
    /\ results = << >>
    /\ collection = NoCollection
    /\ aliased = FALSE
    /\ awaited = "none"
    /\ ingestCalls = 0
    /\ ret = "none"
    /\ rerun = FALSE
    /\ firstResults = << >>
    /\ before = staticData
    /\ LLMInit /\ EngineInit /\ ParseInit

\* a faulty listing that names every key, whatever is stored under it
ListsEveryName(data) == DOMAIN data

\* listAllCollections (node.ts 289-293): the keys of the static data
listAllCollections(data) == { name \in DOMAIN data : data[name] # NoCollection }

\* what an operation that only reads leaves of the operation before it
ReadOnly(o, name) ==
    /\ pc \in {"idle", "done"}
    /\ op' = o
    /\ collName' = name
    /\ inputType' = "none"
    /\ nItems' = 0
    /\ items' = << >>
    /\ idx' = 1
    /\ seenDocuments' = {}
    /\ collection' = NoCollection
    /\ aliased' = FALSE
    /\ awaited' = "none"
    /\ ingestCalls' = 0
    /\ rerun' = FALSE
    /\ firstResults' = << >>
    /\ before' = staticData
    /\ pc' = "done"
    /\ ret' = "success"
    /\ UNCHANGED <<staticData, now>>
    /\ UNCHANGED <<llmVars, engineVars, parseVars>>

\* listCollections (node.ts 304-322)
ListCollections ==
    /\ ReadOnly("listCollections", collName)
    /\ results' = { LET col == getCollection(name)
                     IN  [name |-> name,
                          documentCount |-> IF col # NoCollection
                                            THEN Len(Keys(col.documents)) ELSE 0,
                          \* col?.manifest.created_at, 0 standing for undefined
                          createdAt |-> IF col # NoCollection THEN col.created_at ELSE 0,
                          updatedAt |-> IF col # NoCollection THEN col.updated_at ELSE 0] :
                       name \in listAllCollections(staticData) }

\* collectionStatus (node.ts 323-353)
CollectionStatus(name) ==
    /\ ReadOnly("collectionStatus", name)
    /\ LET stored == getCollection(name)
       IN  results' = IF stored = NoCollection
                      THEN << [exists |-> FALSE, collectionName |-> name] >>
                      ELSE << [exists |-> TRUE, collectionName |-> name,
                               documentCount |-> Len(Keys(stored.documents)),
                               documents |-> Keys(stored.documents),
                               createdAt |-> stored.created_at,
                               updatedAt |-> stored.updated_at] >>

\* ingestCollection or syncCollection of no item under a name (node.ts 454-552)
EmptyBatch(o, name) ==
    /\ CanStart
    /\ BatchBegin(o, name, 0, FALSE)
    /\ UNCHANGED <<llmVars, engineVars, parseVars>>

NextStore ==
    \/ \E o \in {"ingestCollection", "syncCollection"}, name \in StoreNames :
          EmptyBatch(o, name)
    \/ \E item \in Items, type \in {"binary", "text"} : IngestDocumentStart(item, type)
    \/ \E outcome \in IngestOutcomes : IngestSettles(outcome)
    \/ IngestDocumentFinish
    \/ \E name \in StoreNames : DeleteCollection(name)
    \/ ListCollections
    \/ \E name \in StoreNames : CollectionStatus(name)

SpecStore == InitStore /\ [][NextStore]_vars

(***************************************************************************)
(* The engine with its scheduling: a request that was sent settles, a      *)
(* timer that was set fires, and a continuation that is ready runs.        *)
(***************************************************************************)
FairSpecEngine ==
    /\ SpecEngine
    /\ WF_vars(LLMSend)
    /\ WF_vars((\E reply \in ModelReplies : LLMReplies(reply))
                \/ (\E error \in LLMErrors : LLMFails(error)))
    /\ WF_vars(LLMWakes)

\* C6: a callLLM sends at most 5 requests; it returns at its first success,
\* with the trimmed content of that reply, and sends nothing after it; when
\* all 5 requests have failed it throws the 5th failure; and every call that
\* was entered ends, returned or thrown.
C6_AtMostFiveAttempts ==
    /\ [](/\ llmRequests <= 5
          /\ llmPc = "returned" =>
                /\ llmOut.ok
                /\ llmRequests = Len(failures) + 1
                /\ llmOut.v = Trim(llmOut.v)
          /\ llmPc = "thrown" <=> Len(failures) = 5
          /\ llmPc = "thrown" =>
                /\ llmRequests = 5
                /\ ~llmOut.ok
                /\ llmOut.v = failures[5])
    /\ [][/\ (llmPc = "inflight" /\ llmPc' = "returned") =>
                /\ llmRequests' = llmRequests
                /\ \E reply \in ModelReplies :
                      llmOut'.v = IF reply.has THEN Trim(reply.content) ELSE ""
          /\ LLMDone => llmRequests' \in {llmRequests, 0}]_vars
    /\ (llmPc = "request" ~> LLMDone)

\* the fifth request of a call succeeded, with a reply that had to be trimmed
C6_Witness ==
    /\ llmPc = "returned"
    /\ Len(failures) = 4
    /\ llmRequests = 5
    /\ StartsWith(llmOut.v, Fence)

\* C7: the n-th failure of a call, n in 1..4, is followed by a wait of
\* 1000*n ms before request n+1; there is no wait before the first request,
\* after a success, or after the 5th failure.
C7_BackoffGrowsLinearly ==
    /\ Len(waits) = (IF Len(failures) < 4 THEN Len(failures) ELSE 4)
    /\ \A n \in 1..Len(waits) : waits[n] = 1000 * n
    /\ llmPc = "backoff" => Len(waits) = llmRequests
    /\ llmPc \in {"inflight", "returned"} => Len(waits) = llmRequests - 1
    /\ llmPc = "thrown" => Len(waits) = llmRequests - 1

\* all five requests of a call failed
C7_Witness ==
    /\ llmPc = "thrown"
    /\ waits = << 1000, 2000, 3000, 4000 >>

\* the field of the reply a function of the engine reads
ExpectedField ==
    CASE epc = "selectDocuments" -> "selected_doc_ids"
      [] epc = "treeSearch" -> "node_list"
      [] OTHER -> "structure"

\* a reply has come back to the function under way
ReplyArrived == Running /\ llmPc = "returned"

NonJson(text) == IsError(parseJsonResponse(text))

FieldMissing(text) ==
    /\ ~NonJson(text)
    /\ Prop(parseJsonResponse(text), ExpectedField).t \in {"undefined", "error"}

\* C8 as stated: a reply that is no JSON, or JSON without the expected field,
\* makes the function throw at once, with no further request.
C8_MalformedAlwaysThrows ==
    [][(ReplyArrived /\ (NonJson(llmOut.v) \/ FieldMissing(llmOut.v))) =>
            /\ epc' = "thrown"
            /\ eOut' \in {SyntaxError, TypeError}
            /\ calls' = calls
            /\ llmRequests' = llmRequests]_vars

\* C8 amended: a reply that is no JSON makes the function throw a parse error
\* at once, with no further request; the reply null makes it throw a type
\* error likewise; any other JSON without the expected field is no error:
\* the field counts as the empty list and the function goes on.
C8_NonJsonThrowsMissingFieldIsEmpty ==
    [][ReplyArrived =>
        LET parsed == parseJsonResponse(llmOut.v)
        IN  /\ (NonJson(llmOut.v) \/ parsed = JNull) =>
                  /\ epc' = "thrown"
                  /\ eOut' = (IF parsed = JNull THEN TypeError ELSE SyntaxError)
                  /\ calls' = calls
                  /\ llmRequests' = llmRequests
                  /\ llmPc' = "returned"
            /\ (FieldMissing(llmOut.v) /\ parsed # JNull) =>
                  /\ epc' # "thrown"
                  /\ epc = "selectDocuments" =>
                        targetDocs' = << >> /\ epc' = "returned" /\ eOut' = << >>
                                            /\ calls' = calls
                  /\ epc = "treeSearch" =>
                        /\ Len(retrieved') = Len(retrieved) + 1
                        /\ retrieved'[Len(retrieved')].node_ids = JArr(<< >>)
                        /\ retrieved'[Len(retrieved')].nodes = << >>
                  /\ epc = "buildTree" => epc' = "returned" /\ eOut' = << >>]_vars

\* a tree search of the second document threw on a reply that is no JSON
C8_Witness ==
    /\ epc = "thrown"
    /\ llmPc = "returned"
    /\ NonJson(llmOut.v)
    /\ eOut = SyntaxError
    /\ Len(calls) = 3

\* C10: a retrieve whose docFilter is an id of its documents asks for no
\* document selection in either mode, asks for exactly one tree search, of
\* that document, and what it returns is one result with that doc_id.
C10_FilterSearchesOnlyThatDocument ==
    (docFilter # NoFilter /\ Has(documents, docFilter)) =>
        /\ \A i \in 1..Len(calls) : calls[i].fn # "selectDocuments"
        /\ calls = << Prompt("treeSearch", Get(documents, docFilter)) >>
        /\ epc \in {"treeSearch", "returned", "thrown"}
        /\ epc = "returned" => Len(eOut) = 1 /\ eOut[1].doc_id = docFilter

\* select mode, two documents, the filter names the second: one result
C10_Witness ==
    /\ epc = "returned"
    /\ mode = "select"
    /\ Len(documents) = 2
    /\ docFilter = documents[2].k
    /\ Len(eOut) = 1
    /\ eOut[1].nodes # << >>

\* C9: for every JSON text J, the response that is J alone, or J between a
\* leading and a trailing fence with or without the json tag, parses to the
\* value of J; a response that is no JSON under the wrapping fails with a
\* parse error.
C9_FencedJsonParsesAsJson ==
    parseResult # NotParsed =>
        /\ \A J \in JsonTexts, w \in Wrappings :
              response = Wrap(J, w) => parseResult = JsonParse(J)
        /\ \A N \in NonJsonTexts, w \in Wrappings :
              response = Wrap(N, w) => parseResult = SyntaxError

\* C11: a retrieve whose docFilter is given and is no id of its documents
\* throws the not-found error and enters no callLLM, for selection or for
\* tree search.
C11_UnknownFilterThrowsNotFound ==
    (docFilter # NoFilter /\ ~Has(documents, docFilter)) =>
        /\ epc = "thrown"
        /\ eOut = Err("Document not found: " \o docFilter)
        /\ calls = << >>
        /\ llmRequests = 0

\* C12: a retrieve execution on a collection name under which nothing is
\* stored (never saved, or deleted) ends with an error, never with a success
\* result, and never enters the engine's retrieve, so that no model call is made.
C12_UnknownCollectionFails ==
    (op = "retrieve" /\ before[collName] = NoCollection) =>
        /\ pc = "done"
        /\ ret = "error"
        /\ awaited = "none"

\* a document was ingested, the collection deleted, and the retrieve failed
C12_Witness ==
    /\ op = "retrieve" /\ pc = "done" /\ ret = "error"
    /\ staticData[collName] = NoCollection
    /\ now = 2

\* a retrieve in select mode without a filter is under way or has ended
SelectRetrieve ==
    /\ epc \notin {"idle", "buildTree"}
    /\ mode = "select" /\ docFilter = NoFilter
    /\ calls # << >> /\ calls[1].fn = "selectDocuments"

\* the strings of a list of reply values
StringsOf(list) == {list[i].s : i \in {j \in 1..Len(list) : list[j].t = "str"}}

\* C13: a retrieve in select mode without a filter asks for exactly one
\* document selection, first of all; the documents it then tree-searches, each
\* once and in collection order, are those whose ids are both returned by the
\* model and ids of the collection: unknown ids are dropped without an error
\* and an id returned twice is searched once.
C13_SearchesSelectedKnownDocuments ==
    /\ [](SelectRetrieve =>
            /\ \A i \in 2..Len(calls) :
                  /\ calls[i].fn = "treeSearch"
                  /\ calls[i].about = Get(documents, targetDocs[i - 1])
            /\ Len(calls) - 1 <= Len(targetDocs)
            /\ epc = "returned" => Len(calls) - 1 = Len(targetDocs)
            /\ \A i, j \in 1..Len(targetDocs) : targetDocs[i] = targetDocs[j] => i = j)
    /\ [][(epc = "selectDocuments" /\ llmPc = "returned") =>
            LET parsed == parseJsonResponse(llmOut.v)
                field == Prop(parsed, "selected_doc_ids")
            IN  (~IsError(parsed) /\ field.t = "arr") =>
                    /\ epc' # "thrown"
                    /\ {targetDocs'[i] : i \in 1..Len(targetDocs')}
                          = StringsOf(field.e) \cap KeySet(documents)
                    /\ targetDocs' = SelectSeq(Keys(documents),
                                               LAMBDA id : id \in StringsOf(field.e))]_vars

\* the model returned one known id twice and an unknown id: one document searched
C13_Witness ==
    /\ SelectRetrieve
    /\ epc = "returned"
    /\ Len(documents) = 2
    /\ targetDocs = << "Y" >>
    /\ Len(eOut) = 1

RECURSIVE PreOrder(_)
\* the nodes of a forest in pre-order
PreOrder(forest) ==
    IF forest = << >> THEN << >>
    ELSE << Head(forest) >> \o PreOrder(Head(forest).nodes) \o PreOrder(Tail(forest))

\* the first node in pre-order with the given id, for an id some node has
NodeWithId(forest, id) ==
    LET all == PreOrder(forest)
    IN  all[CHOOSE k \in 1..Len(all) :
                /\ JStr(all[k].node_id) = id
                /\ \A h \in 1..(k - 1) : JStr(all[h].node_id) # id]

HasNodeWithId(forest, id) ==
    \E k \in 1..Len(PreOrder(forest)) : JStr(PreOrder(forest)[k].node_id) = id

\* C14: when a tree search returns, the result pushed for the document has
\* as node_ids the node_list of the reply as it came, ids without a match
\* included, and as nodes, in the same order, one entry for each requested id
\* that some node of the document's tree has; an id without a match raises
\* no error.
C14_ResultKeepsRequestedIdsAndFoundNodes ==
    [][(epc = "treeSearch" /\ llmPc = "returned") =>
          LET parsed == parseJsonResponse(llmOut.v)
              field == Prop(parsed, "node_list")
              docId == targetDocs[target]
              doc == Lookup(documents, docId)
          IN  (~IsError(parsed) /\ field.t = "arr" /\ Has(documents, docId)) =>
                  LET matched == SelectSeq(field.e,
                                           LAMBDA id : HasNodeWithId(doc.structure, id))
                      pushed == retrieved'[Len(retrieved')]
                  IN  /\ epc' # "thrown"
                      /\ Len(retrieved') = Len(retrieved) + 1
                      /\ \A i \in 1..Len(retrieved) : retrieved'[i] = retrieved[i]
                      /\ pushed.doc_id = docId
                      /\ pushed.doc_name = doc.doc_name
                      /\ pushed.node_ids = field
                      /\ Len(pushed.nodes) = Len(matched)
                      /\ \A k \in 1..Len(matched) :
                            /\ pushed.nodes[k].node_id = matched[k]
                            /\ pushed.nodes[k].title
                                  = NodeWithId(doc.structure, matched[k]).title]_vars

\* three ids were requested, one of them of no node: two nodes in the result
C14_Witness ==
    /\ epc = "returned"
    /\ calls # << >> /\ calls[1].fn # "buildTreeFromPages"
    /\ Len(eOut) = 1
    /\ Len(eOut[1].node_ids.e) = 3
    /\ Len(eOut[1].nodes) = 2

\* C15: every node of every retrieval result carries a summary of at most
\* 500 characters, which is the first 500 characters of the summary stored on
\* the node, and the empty string when the node has none.
C15_SummaryIsFirst500Characters ==
    \A r \in 1..Len(retrieved) :
        Has(documents, retrieved[r].doc_id) =>
            \A k \in 1..Len(retrieved[r].nodes) :
                LET entry == retrieved[r].nodes[k]
                    stored == NodeWithId(Get(documents, retrieved[r].doc_id).structure,
                                         entry.node_id).summary
                IN  /\ Len(entry.summary) <= 500
                    /\ Len(entry.summary) = (IF Len(stored) < 500 THEN Len(stored) ELSE 500)
                    /\ \A c \in 1..Len(entry.summary) :
                          SubSeq(entry.summary, c, c) = SubSeq(stored, c, c)

\* a result whose node has a stored summary of 504 characters, cut at 500
C15_Witness ==
    /\ epc = "returned"
    /\ Len(retrieved) = 1
    /\ retrieved[1].doc_id = "X"
    /\ Len(retrieved[1].nodes) = 2
    /\ retrieved[1].nodes[1].node_id = JStr("0002")
    /\ Len(retrieved[1].nodes[1].summary) = 500
    /\ Len(Get(documents, "X").structure[2].summary) = 504

\* C16: findNodeById returns the first node in pre-order whose node_id is the
\* id asked for, whenever a node at any depth of the forest has that id, and
\* returns null exactly when no node of the forest has it.
C16_FindsFirstInPreOrderOrNull ==
    findResult # NotCalled =>
        IF HasNodeWithId(findNodes, JStr(findId))
        THEN /\ findResult.found
             /\ findResult.node.node_id = findId
             /\ findResult.node = NodeWithId(findNodes, JStr(findId))
        ELSE findResult = NotFound

\* the id is found two levels down in the second tree
C16_Witness ==
    /\ findResult # NotCalled
    /\ findResult.found
    /\ Len(findNodes) = 2
    /\ findNodes[1].node_id # findId
    /\ findNodes[2].node_id # findId
    /\ findNodes[2].nodes # << >>
    /\ findNodes[2].nodes[1].node_id # findId
    /\ findNodes[2].nodes[1].nodes # << >>
    /\ findResult.node = findNodes[2].nodes[1].nodes[1]

\* the ids of the nodes of a forest, in pre-order
IdsOf(forest) == [k \in 1..Len(PreOrder(forest)) |-> PreOrder(forest)[k].node_id]

Digit(d) == SubSeq("0123456789", d + 1, d + 1)

FourDigits(n) ==
    Digit(n \div 1000) \o Digit((n \div 100) % 10) \o Digit((n \div 10) % 10) \o Digit(n % 10)

\* the decimal digits of n < 100000, with zeros in front up to four digits
AtLeastFourDigits(n) ==
    IF n < 10000 THEN FourDigits(n) ELSE Digit(n \div 10000) \o FourDigits(n % 10000)

HeadingsOf(markdown) ==
    LET lines == Split(markdown, "\n")
    IN  SelectSeq([i \in 1..Len(lines) |-> HeadingOf(lines[i])], LAMBDA h : h.matched)

\* the nearest heading before heading k that is of a lower level, 0 when none is
ParentOf(H, k) ==
    IF \E j \in 1..(k - 1) : H[j].level < H[k].level
    THEN CHOOSE j \in 1..(k - 1) :
            /\ H[j].level < H[k].level
            /\ \A i \in (j + 1)..(k - 1) : H[i].level >= H[k].level
    ELSE 0

RECURSIVE Nested(_, _)
\* the headings whose parent is heading j, in the order of the text, each with
\* the headings below it
Nested(H, j) ==
    LET kids == SelectSeq([i \in 1..Len(H) |-> i], LAMBDA k : ParentOf(H, k) = j)
    IN  [c \in 1..Len(kids) |->
            [title |-> H[kids[c]].title, children |-> Nested(H, kids[c])]]

RECURSIVE MdOutline(_)
MdOutline(children) ==
    [c \in 1..Len(children) |->
        [title |-> children[c].title, children |-> MdOutline(children[c].children)]]

RECURSIVE TreeOutline(_)
TreeOutline(nodes) ==
    [c \in 1..Len(nodes) |->
        [title |-> nodes[c].title.s, children |-> TreeOutline(nodes[c].nodes)]]

RECURSIVE Deepens(_)
\* every node is of a higher level than the node it is a child of
Deepens(node) ==
    \A c \in 1..Len(node.children) :
        node.children[c].level > node.level /\ Deepens(node.children[c])

\* C19: in the tree of a Markdown text each heading is a child of the nearest
\* heading before it that is of a lower level, or a top-level node when there
\* is none; no heading is below a heading of the same or of a higher level;
\* siblings are in the order of the text; a text without a heading line gives
\* an empty structure.
C19_HeadingsNestUnderNearestLowerLevel ==
    mdTree # NotCalled =>
        LET H == HeadingsOf(mdContent)
        IN  /\ MdOutline(mdTree.children) = Nested(H, 0)
            /\ TreeOutline(built) = Nested(H, 0)
            /\ Deepens(mdTree)
            /\ H = << >> => built = << >>

\* levels 1, 3, 2, 3: the first heading has two children, the second of them one
C19_Witness ==
    /\ builder = "ingestMarkdown"
    /\ mdContent = "# A\n### C\n## B\n### C"
    /\ Len(built) = 1
    /\ Len(built[1].nodes) = 2
    /\ built[1].nodes[1].title = JStr("C")
    /\ built[1].nodes[1].nodes = << >>
    /\ built[1].nodes[2].title = JStr("B")
    /\ Len(built[1].nodes[2].nodes) = 1

\* C18: whatever other ingests start or go on while an ingest of Markdown is
\* paused at a call of the model, the tree of each ingest has the ids 0000,
\* 0001, ... in pre-order, one for each heading of its own content, without a
\* gap and without a duplicate.
C18_IdsOfIngestAreItsOwn ==
    \A i \in 1..MaxIngests :
        ingests[i].at # "idle" =>
            LET ids == IdsOf(ingests[i].structure)
            IN  /\ Len(ids) = Len(HeadingsOf(ingests[i].content))
                /\ \A k \in 1..Len(ids) : ids[k] = FourDigits(k - 1)

\* an ingest of three nodes is paused after its first summary, and an ingest
\* of one node that started after it, as the counter tells, is paused too
C18_Witness ==
    /\ ingests[1].at = "summaries"
    /\ ingests[1].awaits = 2
    /\ Size(ingests[1].structure) = 3
    /\ ingests[2].at = "description"
    /\ Size(ingests[2].structure) = 1
    /\ ingests[2].structure[1].summary # ""
    /\ nodeIdCounter = 1

\* hash*31 + charCode modulo 2^32, on the four bytes of the accumulator, the
\* lowest first
RefStep(b, c) ==
    LET t1 == b[1] * 31 + c
        t2 == b[2] * 31 + (t1 \div 256)
        t3 == b[3] * 31 + (t2 \div 256)
        t4 == b[4] * 31 + (t3 \div 256)
    IN  << t1 % 256, t2 % 256, t3 % 256, t4 % 256 >>

RECURSIVE RefLoop(_, _, _)
RefLoop(b, str, i) ==
    IF i > Len(str) THEN b
    ELSE RefLoop(RefStep(b, CharCode(SubSeq(str, i, i))), str, i + 1)

\* the absolute value of the four bytes read as a signed integer: as they are
\* when the sign bit is clear, 2^32 minus them when it is set
RefAbs(b) ==
    IF b[4] < 128 THEN b
    ELSE LET n1 == 256 - b[1]
             n2 == 255 - b[2] + (n1 \div 256)
             n3 == 255 - b[3] + (n2 \div 256)
             n4 == 255 - b[4] + (n3 \div 256)
         IN  << n1 % 256, n2 % 256, n3 % 256, n4 % 256 >>

\* eight lowercase hexadecimal digits, the highest byte first
RefHex(b) ==
    LET digit(d) == SubSeq("0123456789abcdef", d + 1, d + 1)
        byte(v) == digit(v \div 16) \o digit(v % 16)
    IN  byte(b[4]) \o byte(b[3]) \o byte(b[2]) \o byte(b[1])

\* C20: simpleHash returns what the reference gives: from 0, for each
\* character hash = (hash*31 + charCode) mod 2^32 read as a signed 32-bit
\* integer, then the absolute value in lowercase hexadecimal with zeros in
\* front; the result has exactly 8 hexadecimal characters for every input,
\* the empty string and an accumulator of -2^31 included.
C20_SimpleHashIsReferenceOfEightHexDigits ==
    hashed # "" =>
        /\ hashed = RefHex(RefAbs(RefLoop(<< 0, 0, 0, 0 >>, hashInput, 1)))
        /\ Len(hashed) = 8
        /\ \A c \in 1..Len(hashed) :
              \E d \in 1..16 : SubSeq(hashed, c, c) = SubSeq("0123456789abcdef", d, d)
        /\ hashInput = "" => hashed = "00000000"

\* the accumulator is -2^31, the hash is the hexadecimal of 2^31
C20_Witness ==
    /\ hashInput = MinIntString
    /\ hashed = "80000000"

\* the names under which a collection is stored
StoredNames == { name \in DOMAIN staticData : staticData[name] # NoCollection }

\* C21: deleteCollection reports true exactly when a collection was stored
\* under the name, and the name is absent afterwards; collectionStatus tells
\* whether the name is stored; a name comes to be stored only when an ingest
\* or a sync saves under it and ceases to be stored only when it is deleted,
\* and listCollections returns exactly the names that are stored.
C21_DeleteReportsAndListNamesTheStored ==
    /\ [](op = "listCollections" => { info.name : info \in results } = StoredNames)
    /\ []((op = "collectionStatus" /\ pc = "done") =>
              (results[1].exists <=> collName \in StoredNames))
    /\ [][(op' = "deleteCollection" /\ now' = now + 1) =>
              /\ (ret' = "deleted") <=> (collName' \in StoredNames)
              /\ StoredNames' = StoredNames \ {collName'}]_vars
    /\ [][/\ StoredNames' \ StoredNames # {} =>
                /\ op' \in {"ingestCollection", "syncCollection", "ingestDocument"}
                /\ ret' = "success"
                /\ StoredNames' = StoredNames \cup {collName'}
          /\ StoredNames \ StoredNames' # {} =>
                op' = "deleteCollection" /\ now' = now + 1]_vars

\* a collection that was stored under a name is deleted: true is reported
\* and the name is stored no more
C21_Witness ==
    /\ op = "deleteCollection"
    /\ pc = "done"
    /\ collName = "c2"
    /\ ret = "deleted"
    /\ before["c2"] # NoCollection
    /\ staticData["c2"] = NoCollection

\* C22: when an ingest of a document ends well under an id that the
\* collection has already, the tree under the id is the tree that was built
\* from the new content and nothing else, the manifest entry of the id has
\* the hash of the new content, the id is there once, and the documents under
\* the other ids that stay are as they were.
C22_ReingestReplacesTreeAndManifestEntry ==
    [][(pc \in {"ingesting", "docIngesting"} /\ awaited = "ok" /\ awaited' = "none") =>
          LET item == items[idx]
              id == item.name
              hash == IF inputType = "text" THEN simpleHash(item.content)
                      ELSE simpleHash(Slice(Base64(item.content), 0, 10000))
          IN  Has(collection.documents, id) =>
                  /\ Get(collection'.documents, id) = Tree(id, item.content)
                  /\ Get(collection'.files, id) = [hash |-> hash, indexed_at |-> now]
                  /\ Len(SelectSeq(Keys(collection'.documents), LAMBDA k : k = id)) = 1
                  /\ Len(SelectSeq(Keys(collection'.files), LAMBDA k : k = id)) = 1
                  /\ \A other \in KeySet(collection'.documents) \ {id} :
                        /\ Has(collection.documents, other)
                        /\ Get(collection'.documents, other)
                              = Get(collection.documents, other)
                  /\ aliased' => staticData'[collName] = collection']_vars

\* a document stored from one content is stored anew from another content
C22_Witness ==
    /\ op = "ingestDocument" /\ pc = "done" /\ ret = "success"
    /\ before[collName] # NoCollection
    /\ Has(before[collName].documents, "A")
    /\ Get(before[collName].documents, "A").built_from = "# T"
    /\ Get(staticData[collName].documents, "A").built_from = "# T\nx"
    /\ Get(staticData[collName].files, "A").hash # Get(before[collName].files, "A").hash

\* a retrieve has returned its results
RetrieveReturned ==
    epc = "returned" /\ (calls = << >> \/ calls[1].fn # "buildTreeFromPages")

\* C23: the results of a retrieve without a filter are in the order in which
\* the documents are iterated: in mode all one result for each document, in
\* that order; in mode select the results of the selected documents in that
\* order, whatever the order in which the model listed them; and while the
\* documents are searched the results so far are those of the first targets.
C23_ResultsFollowDocumentOrder ==
    /\ (epc \in {"treeSearch", "returned", "thrown"} /\ calls # << >>
            /\ calls[1].fn # "buildTreeFromPages") =>
           /\ Len(retrieved) <= Len(targetDocs)
           /\ \A i \in 1..Len(retrieved) : retrieved[i].doc_id = targetDocs[i]
    /\ (RetrieveReturned /\ docFilter = NoFilter) =>
           LET ids == [i \in 1..Len(eOut) |-> eOut[i].doc_id]
           IN  /\ mode = "all" => ids = Keys(documents)
               /\ mode = "select" =>
                     ids = SelectSeq(Keys(documents),
                                     LAMBDA id : \E i \in 1..Len(ids) : ids[i] = id)

\* two documents were selected, which only the reply that lists Y before X
\* does: the results are in the order of the documents, X before Y
C23_Witness ==
    /\ RetrieveReturned
    /\ mode = "select" /\ docFilter = NoFilter
    /\ Keys(documents) = << "X", "Y" >>
    /\ Len(eOut) = 2
    /\ eOut[1].doc_id = "X"
    /\ eOut[2].doc_id = "Y"

\* a call of the model for a retrieve has ended in a failure: its attempts
\* are used up, or its reply is no JSON
CallFailed ==
    /\ epc \in {"selectDocuments", "treeSearch"}
    /\ LLMDone
    /\ (llmPc = "thrown" \/ NonJson(llmOut.v))

\* C24: when the selection call or the tree-search call of the k-th target
\* fails, its retries used up or its reply no JSON, retrieve throws that
\* error, what it gives back is the error and no result of the documents
\* searched before, and no call of the model is made for a later target.
C24_FirstFailureEndsRetrieve ==
    /\ [][CallFailed =>
              /\ epc' = "thrown"
              /\ eOut' = (IF llmPc = "thrown" THEN Err(llmOut.v) ELSE SyntaxError)
              /\ calls' = calls
              /\ llmPc' = llmPc
              /\ llmRequests' = llmRequests]_vars
    /\ []((epc = "thrown" /\ calls # << >> /\ calls[1].fn # "buildTreeFromPages") =>
              /\ eOut.t = "error"
              /\ llmPc \in {"returned", "thrown"}
              /\ calls[Len(calls)].fn = "treeSearch" =>
                    /\ target = Len(retrieved) + 1
                    /\ Len(SelectSeq(calls, LAMBDA c : c.fn = "treeSearch")) = target
              /\ calls[Len(calls)].fn = "selectDocuments" =>
                    Len(calls) = 1 /\ retrieved = << >>)

\* the tree search of the second of two targets used up its retries: the
\* result of the first is not returned and nothing more is asked
C24_Witness ==
    /\ epc = "thrown"
    /\ llmPc = "thrown"
    /\ Len(targetDocs) = 2
    /\ Len(retrieved) = 1
    /\ target = 2
    /\ eOut = Err(llmOut.v)
    /\ Len(calls) = 2

(***************************************************************************)
(* An ingest with summaries: ingestPdf (part_001 310-325) from the point   *)
(* where extractPdfPages and buildTreeFromPages have returned, and          *)
(* ingestMarkdownWithSummaries (341-360).  Both call generateSummaries      *)
(* (252-278) and then generateDescription (282-295); each callLLM they      *)
(* await ends with a text or, its attempts used up, with an error.          *)
(***************************************************************************)
MaxPages == 3

NodeTextLimit == 8000

\* Math.max and Math.min of two integers
MathMax(a, b) == IF a >= b THEN a ELSE b

MathMin(a, b) == IF a <= b THEN a ELSE b

\* the index Array.prototype.slice makes of an argument: one below 0 counts
\* from the end of the array
RelativeIndex(len, k) == IF k < 0 THEN MathMax(len + k, 0) ELSE MathMin(k, len)

\* Array.prototype.slice(from, to), 0-based and half-open
ArraySlice(arr, from, to) ==
    SubSeq(arr, RelativeIndex(Len(arr), from) + 1, RelativeIndex(Len(arr), to))

\* line 257
StartIdx(node) == MathMax(0, OrElse(node.start_index, JNum(1)).n - 1)

\* line 258
EndIdx(pages, node) ==
    MathMin(Len(pages), OrElse(OrElse(node.end_index, node.start_index), JNum(1)).n)

\* pages.slice(startIdx, endIdx) (line 259)
PageWindow(pages, node) == ArraySlice(pages, StartIdx(node), EndIdx(pages, node))

\* line 259
NodeText(pages, node) == Slice(JoinWith(PageWindow(pages, node), "\n"), 0, NodeTextLimit)

\* the lookahead (?=^#{1,6}\s) of line 351 at the 1-based position q
SectionStartsAt(s, q) ==
    LET hashes == HashRun(s, q)
    IN  /\ (q = 1 \/ IsLineTerminator(CharAt(s, q - 1)))
        /\ hashes >= 1
        /\ hashes <= 6
        /\ IsWhitespace(CharAt(s, q + hashes))

RECURSIVE SplitFrom(_, _, _)
\* String.prototype.split with that lookahead: the piece under way starts at
\* p, and q is the position tried; a match at the start of the piece does
\* not split
SplitFrom(s, p, q) ==
    IF q > Len(s) THEN << SubSeq(s, p, Len(s)) >>
    ELSE IF q > p /\ SectionStartsAt(s, q)
    THEN << SubSeq(s, p, q - 1) >> \o SplitFrom(s, q, q + 1)
    ELSE SplitFrom(s, p, q + 1)

\* content.split(/(?=^#{1,6}\s)/m) (line 351)
SplitSections(content) == SplitFrom(content, 1, 1)

RECURSIVE flattenTitles(_, _)
\* flattenTitles (lines 297-306)
flattenTitles(treeNodes, indent) ==
    IF treeNodes = << >> THEN << >>
    ELSE << indent \o ToStr(Head(treeNodes).title) >>
         \o flattenTitles(Head(treeNodes).nodes, indent \o "  ")
         \o flattenTitles(Tail(treeNodes), indent)

RECURSIVE Below(_)
\* the children of the nodes of a list, in order
Below(forest) ==
    IF forest = << >> THEN << >> ELSE Head(forest).nodes \o Below(Tail(forest))

RECURSIVE LevelOrder(_)
\* the nodes of a forest level by level
LevelOrder(forest) ==
    IF forest = << >> THEN << >> ELSE forest \o LevelOrder(Below(forest))

\* a faulty walk that comes to all the nodes of a list before the nodes
\* below them
SiblingsFirst(forest, k) == LevelOrder(forest)[k]

RECURSIVE NodeAt(_, _)
\* the k-th node that the loop of generateSummaries comes to (lines 256-277):
\* a node, then the nodes below it (lines 273-275), then the node after it
NodeAt(forest, k) ==
    LET node == Head(forest)
        below == Size(node.nodes)
    IN  IF k = 1 THEN node
        ELSE IF k <= 1 + below THEN NodeAt(node.nodes, k - 1)
        ELSE NodeAt(Tail(forest), k - 1 - below)

\* what callLLM is asked: by which function, about which node, with which text
Request(fn, id, text) == [fn |-> fn, node_id |-> id, text |-> text]

\* the callLLM of line 271 for the k-th node
SummaryRequest(run, k) ==
    LET node == NodeAt(run.structure, k)
    IN  Request("generateSummaries", node.node_id, NodeText(run.pages, node))

\* the callLLM of line 294
DescriptionRequest(run) ==
    Request("generateDescription", "", JoinWith(flattenTitles(run.structure, ""), "\n"))

\* a request is sent and awaited
Asks(run, request) ==
    [run EXCEPT !.asked = Append(@, request),
                !.outstanding = @ \cup {Len(run.asked) + 1}]

\* the awaited callLLM has ended: no request is under way
Answered(run) == [run EXCEPT !.outstanding = @ \ {Len(run.asked)}]

\* what follows the k-th summary: the summary of the next node or, after the
\* last node, the description (lines 317-318, 352-353)
GoesOn(run, k) ==
    IF k < Size(run.structure)
    THEN Asks([run EXCEPT !.at = "summaries"], SummaryRequest(run, k + 1))
    ELSE Asks([run EXCEPT !.at = "description"], DescriptionRequest(run))

\* the page texts of a document of n pages
PageTexts(n) == [i \in 1..n |-> "page " \o ToDecimal(i)]

PdfPages == { PageTexts(n) : n \in 0..MaxPages }

\* the values a start_index or end_index is drawn from: 0, below 0, within
\* the pages and beyond them
Indexes == (0 - MaxPages - 1)..(MaxPages + 1)

\* trees as buildTreeFromPages returns them: one node with any indexes, and an
\* outline of three levels
PdfStructures ==
    { << TreeNode("0000", JStr("T"), JNum(a), JNum(b), "", << >>) >> : a, b \in Indexes }
    \cup { << TreeNode("0000", JStr("A"), JNum(1), JNum(2), "",
                << TreeNode("0001", JStr("B"), JNum(1), JNum(1), "",
                      << TreeNode("0002", JStr("C"), JNum(1), JNum(1), "", << >>) >>),
                   TreeNode("0003", JStr("D"), JNum(2), JNum(2), "", << >>) >>),
              TreeNode("0004", JStr("E"), JNum(3), JNum(3), "", << >>) >>,
           << >> }

MdContents ==
    {"# A\na\n# B\nb", "# A\n## B\nb\n### C\n## D\n# E", "intro\n# A\na\n## B\nb",
     "no heading", "#x\n# A\n#\n## B"}

ReplyTexts == {"one.", "two."}

InitSummaries ==
    /\ StoreInit /\ LLMInit /\ EngineInit
    /\ ParseInit

RunUnchanged ==
    UNCHANGED <<mdContent, mdTree, rawNodes, builder, idStart, built, ingests, hashVars, concVars,
                response, parseResult, findVars, storeVars, llmVars, engineVars>>

\* ingestPdf from line 317 on, until the first callLLM is awaited
ingestPdf ==
    /\ ingestRun.at = "idle"
    /\ \E pages \in PdfPages, structure \in PdfStructures :
          ingestRun' = GoesOn([NotRun EXCEPT !.fn = "ingestPdf", !.pages = pages,
                                             !.structure = structure], 0)
    /\ UNCHANGED nodeIdCounter
    /\ RunUnchanged

\* ingestMarkdownWithSummaries (lines 346-352), until the first callLLM is
\* awaited
ingestMarkdownWithSummaries ==
    /\ ingestRun.at = "idle"
    /\ \E content \in MdContents :
          LET structure == mdNodeToTreeNode(parseMarkdownToTree(content), 0)
              sections == SplitSections(content)
          IN  /\ nodeIdCounter' = structure.next
              /\ ingestRun' = GoesOn([NotRun EXCEPT !.fn = "ingestMarkdownWithSummaries",
                                                    !.pages = sections,
                                                    !.structure = structure.v], 0)
    /\ RunUnchanged

\* the callLLM of line 271 returns: node.summary is set, and the loop goes on
SummaryReturns ==
    /\ ingestRun.at = "summaries"
    /\ \E text \in ReplyTexts :
          LET k == Len(ingestRun.replies) + 1
              run == [Answered(ingestRun) EXCEPT !.replies = Append(@, text),
                                                 !.structure = Summarised(@, k, text)]
          IN  ingestRun' = GoesOn(run, k)
    /\ UNCHANGED nodeIdCounter
    /\ RunUnchanged

\* the callLLM of line 294 returns: the DocumentTree is returned (lines
\* 320-324, 355-359)
DescriptionReturns ==
    /\ ingestRun.at = "description"
    /\ \E text \in ReplyTexts :
          ingestRun' = [Answered(ingestRun) EXCEPT
                            !.at = "returned",
                            !.replies = Append(@, text),
                            !.returned = << [doc_description |-> text,
                                             structure |-> ingestRun.structure] >>]
    /\ UNCHANGED nodeIdCounter
    /\ RunUnchanged

\* the awaited callLLM throws (line 79): the ingest throws
CallLLMThrows ==
    /\ ingestRun.at \in {"summaries", "description"}
    /\ ingestRun' = [Answered(ingestRun) EXCEPT !.at = "thrown"]
    /\ UNCHANGED nodeIdCounter
    /\ RunUnchanged

NextSummaries ==
    \/ ingestPdf
    \/ ingestMarkdownWithSummaries
    \/ SummaryReturns
    \/ DescriptionReturns
    \/ CallLLMThrows

SpecSummaries == InitSummaries /\ [][NextSummaries]_vars

\* C25: within one ingest at most one request to the model is under way at
\* any time; the summaries are asked for in pre-order of the tree, a node
\* before the nodes below it and all of these before the node after it; and
\* the description is asked for only when the summary of every node has
\* arrived.
C25_OneRequestAtATimeInPreOrder ==
    LET run == ingestRun
        order == PreOrder(run.structure)
    IN  /\ Cardinality(run.outstanding) <= 1
        /\ run.outstanding \subseteq {Len(run.asked)}
        /\ Len(run.asked) <= Len(order) + 1
        /\ \A i \in 1..Len(run.asked) :
              IF i <= Len(order)
              THEN /\ run.asked[i].fn = "generateSummaries"
                   /\ run.asked[i].node_id = order[i].node_id
              ELSE /\ run.asked[i].fn = "generateDescription"
                   /\ Len(run.replies) >= Len(order)
                   /\ \A k \in 1..Len(order) : order[k].summary = run.replies[k]

\* the description of a tree of five nodes on three levels is awaited, the
\* five summaries asked for in pre-order before it
C25_Witness ==
    /\ ingestRun.at = "description"
    /\ Len(ingestRun.asked) = 6
    /\ [i \in 1..5 |-> ingestRun.asked[i].node_id] = <<"0000", "0001", "0002", "0003", "0004">>
    /\ Len(ingestRun.structure) = 2
    /\ Len(ingestRun.structure[1].nodes) = 2
    /\ ingestRun.asked[6].fn = "generateDescription"
    /\ ingestRun.outstanding = {6}

\* C26: when ingestPdf or ingestMarkdownWithSummaries returns, every node of
\* the returned tree, at every depth, has as its summary the reply of the
\* model to the request about that node, and the tree has as its
\* doc_description the reply to the description request; when a summary or
\* description call fails the ingest throws and returns no DocumentTree, so
\* that the caller has none to store.
C26_ReturnedTreeIsFullySummarised ==
    LET run == ingestRun
    IN  /\ run.at = "returned" =>
              /\ Len(run.returned) = 1
              /\ LET order == PreOrder(run.returned[1].structure)
                 IN  /\ Len(run.replies) = Len(order) + 1
                     /\ \A k \in 1..Len(order) :
                           /\ run.asked[k].node_id = order[k].node_id
                           /\ order[k].summary = run.replies[k]
                           /\ order[k].summary \in ReplyTexts
                     /\ run.returned[1].doc_description = run.replies[Len(order) + 1]
                     /\ run.returned[1].doc_description \in ReplyTexts
        /\ run.at # "returned" => run.returned = << >>
        /\ run.at = "thrown" => Len(run.replies) < Len(run.asked)

\* a tree of five nodes on three levels is returned, the replies alternating:
\* the node of the third level has the third reply as its summary
C26_Witness ==
    /\ ingestRun.at = "returned"
    /\ ingestRun.replies = <<"one.", "two.", "one.", "two.", "two.", "one.">>
    /\ Len(ingestRun.returned) = 1
    /\ ingestRun.returned[1].structure[1].nodes[1].nodes[1].summary = "one."
    /\ ingestRun.returned[1].structure[1].nodes[2].summary = "two."
    /\ ingestRun.returned[1].structure[2].summary = "two."
    /\ ingestRun.returned[1].doc_description = "one."

\* the pages at the 0-based positions from a up to b, b left out
HalfOpen(pages, a, b) == [i \in 1..MathMax(0, b - a) |-> pages[a + i]]

\* the window that is stated for a node: from max(0, start_index - 1) to
\* min(pageCount, end_index or start_index or 1)
StatedWindow(pages, node) ==
    LET first == node.start_index.n
        last == node.end_index.n
    IN  HalfOpen(pages, MathMax(0, first - 1),
                 MathMin(Len(pages), IF last # 0 THEN last ELSE IF first # 0 THEN first ELSE 1))

\* C27: for every node and all integers start_index and end_index (0, below
\* 0, end below start and beyond the pages among them) the pages that its
\* summary is made of are those of the half-open slice from
\* max(0, start_index - 1) to min(pageCount, end_index or start_index or 1),
\* all of them pages of the document.
C27_WindowIsTheStatedSlice ==
    ingestRun.fn = "ingestPdf" =>
        \A k \in 1..Len(ingestRun.asked) :
            ingestRun.asked[k].fn = "generateSummaries" =>
                ingestRun.asked[k].text
                    = Slice(JoinWith(StatedWindow(ingestRun.pages,
                                                  PreOrder(ingestRun.structure)[k]), "\n"),
                            0, NodeTextLimit)

RECURSIVE KeepsOutline(_, _)
\* the forest has the nodes of the array of the model, one for one and in
\* their order: each with the title and the indexes of its node, 0 for an
\* index the node has none of (absent or null), and below it the nodes of a
\* non-empty `nodes`, or nothing
KeepsOutline(elems, forest) ==
    /\ Len(forest) = Len(elems)
    /\ \A i \in 1..Len(elems) :
          LET n == elems[i]
              given(key) == Has(n.m, key) /\ Get(n.m, key) # JNull
              kids == IF Has(n.m, "nodes") THEN Get(n.m, "nodes") ELSE JArr(<< >>)
          IN  /\ forest[i].title = (IF Has(n.m, "title") THEN Get(n.m, "title") ELSE JUndefined)
              /\ forest[i].start_index
                    = (IF given("start_index") THEN Get(n.m, "start_index") ELSE JNum(0))
              /\ forest[i].end_index
                    = (IF given("end_index") THEN Get(n.m, "end_index") ELSE JNum(0))
              /\ KeepsOutline(kids.e, forest[i].nodes)

\* C28: the tree that assignIds returns has the nesting, the order of the
\* siblings and the titles of the parsed structure; the indexes of each node
\* are those of the model as they are, 0 where the model gives none, with no
\* index clamped or refused for lying outside the pages or for an end below
\* the start; a node with an empty `nodes` array has no nodes below it.
C28_BuilderKeepsTheOutline ==
    builder = "assignIds" => KeepsOutline(rawNodes.e, built)

\* an outline whose first node ends before it starts, with a child that has
\* index 0 and an end below 0 and a child without title and indexes
C28_Witness ==
    /\ builder = "assignIds"
    /\ Len(built) = 2
    /\ built[1].start_index = JNum(7)
    /\ built[1].end_index = JNum(2)
    /\ Len(built[1].nodes) = 2
    /\ built[1].nodes[1].end_index = JNum(0 - 1)
    /\ built[1].nodes[2].title = JUndefined
    /\ built[1].nodes[2].start_index = JNum(0)
    /\ built[1].nodes[2].nodes = << >>
    /\ built[2].title = JStr("D")

\* the section that a heading opens: the piece of the split that begins with
\* the line of that heading
OpensSection(section, title) ==
    \E hashes \in 1..6 : StartsWith(section, Repeat("#", hashes) \o " " \o title)

\* C29: in an ingest of Markdown with summaries the text that the model is
\* given for the summary of a node is that of the section its heading opens:
\* two nodes whose headings open different sections are summarised from
\* different texts, not from one slice that every node shares.
C29_EachNodeIsSummarisedFromItsSection ==
    ingestRun.fn = "ingestMarkdownWithSummaries" =>
        LET order == PreOrder(ingestRun.structure)
            asked == ingestRun.asked
        IN  \A i, j \in 1..Len(order) :
                (/\ i <= Len(asked)
                 /\ j <= Len(asked)
                 /\ \E a, b \in 1..Len(ingestRun.pages) :
                       /\ a # b
                       /\ OpensSection(ingestRun.pages[a], order[i].title.s)
                       /\ OpensSection(ingestRun.pages[b], order[j].title.s))
                => asked[i].text # asked[j].text

\* C30: a retrieve, in whatever mode, that succeeds or that fails, leaves
\* the stored documents and the manifest of every collection as they were
\* when it was called.
C30_RetrieveLeavesCollectionsAsTheyWere ==
    /\ []((op = "retrieve") => staticData = before)
    /\ [][(op' = "retrieve") => staticData' = staticData]_vars

\* a retrieve of a collection that holds a document has returned results
C30_Witness ==
    /\ op = "retrieve"
    /\ pc = "done"
    /\ ret = "success"
    /\ staticData[collName] # NoCollection
    /\ Has(staticData[collName].documents, "A")
    /\ Has(staticData[collName].files, "A")
    /\ staticData = before

IsBatch == op \in {"ingestCollection", "syncCollection"}

\* the ids a sync does not observe among those stored when it was entered, in
\* the order of the keys
UnseenBefore ==
    IF before[collName] = NoCollection THEN << >>
    ELSE SelectSeq(Keys(before[collName].documents), LAMBDA d : d \notin seenDocuments)

\* C31: a batch ingest or sync takes the input items one after the other in
\* the order of the array, item i + 1 not begun before item i has ended or
\* failed, and its result list has one entry for each item in the order of
\* the input, followed by the 'removed' entries of a sync.
C31_BatchIsSequentialInInputOrder ==
    IsBatch =>
        /\ pc \in {"loop", "ingesting"} =>
              /\ Len(results) = idx - 1
              /\ ~rerun => Len(items) \in {idx - 1, idx}
              /\ pc = "ingesting" => Len(items) >= idx /\ awaited \in {"pending"} \cup IngestOutcomes
              /\ ingestCalls <= idx
              /\ \A i \in 1..Len(results) :
                    results[i].documentName = items[i].name /\ results[i].action # "removed"
        /\ (pc = "done" /\ ret = "success") =>
              /\ Len(items) = nItems
              /\ Len(results) >= nItems
              /\ \A i \in 1..nItems :
                    results[i].documentName = items[i].name /\ results[i].action # "removed"
              /\ [i \in 1..(Len(results) - nItems) |-> results[nItems + i].documentName]
                    = (IF op = "syncCollection" THEN UnseenBefore ELSE << >>)
              /\ \A i \in (nItems + 1)..Len(results) : results[i].action = "removed"

\* a sync of two items of the name A over a collection that holds B: an
\* entry for each item, then the 'removed' entry of B
C31_Witness ==
    /\ op = "syncCollection"
    /\ pc = "done"
    /\ ret = "success"
    /\ nItems = 2
    /\ Len(results) = 3
    /\ results[1].documentName = "A"
    /\ results[1].action = "error"
    /\ results[2].documentName = "A"
    /\ results[2].action = "updated"
    /\ results[3] = Entry("B", "removed", "")

\* C32: an ingestDocument whose ingest fails leaves the store as it was: the
\* documents and the manifest of its collection are those of before the
\* call, and a collection that was not there before is not there after.
C32_FailedIngestDocumentStoresNothing ==
    /\ []((op = "ingestDocument" /\ (pc = "docIngesting" \/ ret = "error"))
              => staticData = before)
    /\ [][(pc = "docIngesting" /\ awaited \in IngestOutcomes \ {"ok"}) =>
              /\ ret' = "error"
              /\ staticData' = staticData]_vars

\* the ingest of a document into a collection that is not there has failed
\* in a call of the model: the collection is still not there
C32_Witness ==
    /\ op = "ingestDocument"
    /\ pc = "done"
    /\ ret = "error"
    /\ ingestCalls = 1
    /\ before[collName] = NoCollection
    /\ staticData[collName] = NoCollection
    /\ collection # NoCollection

\* what a collection holds under an id: the tree and the manifest entry, each
\* absent or present with its value
Held(coll, id) ==
    IF coll = NoCollection THEN << << >>, << >> >>
    ELSE << IF Has(coll.documents, id) THEN << Get(coll.documents, id) >> ELSE << >>,
            IF Has(coll.files, id) THEN << Get(coll.files, id) >> ELSE << >> >>

\* the step is the failure of the item: the loop reads it and its binary is
\* missing, or its ingest has failed
ItemFails(item) ==
    \/ pc = "loop" /\ ~item.bin /\ Len(items') >= idx /\ items'[idx] = item
    \/ pc = "ingesting" /\ awaited \in IngestOutcomes \ {"ok"} /\ item = items[idx]

\* every entry of the id in the result list is an 'error' entry, and there is one
OnlyFailed(id) ==
    /\ \E i \in 1..Len(results) : results[i].documentName = id
    /\ \A i \in 1..Len(results) :
          results[i].documentName = id => results[i].action = "error"

\* C33: a document whose ingest fails in ingestCollection or syncCollection
\* is left as it was: a tree and a manifest entry that were stored under its
\* id, hash and indexed_at, are the same after the pass and the removal of a
\* sync does not take them; an id that was absent is absent from the
\* documents and from the files of the manifest.
C33_FailedBatchItemIsUntouched ==
    /\ [][\A item \in Items :
              (IsBatch /\ ItemFails(item)) =>
                  Held(collection', item.name) = Held(collection, item.name)]_vars
    /\ []((IsBatch /\ pc = "done" /\ ret = "success") =>
              \A id \in DocIds :
                  OnlyFailed(id) =>
                      Held(staticData[collName], id) = Held(before[collName], id))

\* a sync over a collection that holds A: the ingest of the changed A fails in
\* a call of the model, and A is stored as before
C33_Witness ==
    /\ op = "syncCollection"
    /\ pc = "done"
    /\ ret = "success"
    /\ nItems = 1
    /\ results = << Entry("A", "error", "model call failed") >>
    /\ Has(staticData[collName].documents, "A")
    /\ Held(staticData[collName], "A") = Held(before[collName], "A")
    /\ BinaryHashOf[items[1].content] # Get(staticData[collName].files, "A").hash

\* C36: a document that ingestDocument has stored, from a binary or from a
\* text input, and that syncCollection then observes under the same id with
\* the same content, is reported skipped and is not ingested again: the hash
\* that ingestDocument records is the hash that syncCollection computes for
\* that content.
C36_SyncSkipsWhatIngestDocumentStored ==
    (op = "ingestDocument" /\ pc = "done" /\ ret = "success") =>
        LET item == items[1]
        IN  /\ Get(staticData[collName].files, item.name).hash = BinaryHash(item.content)
            /\ Unchanged("syncCollection", staticData[collName], item.name,
                         BinaryHash(item.content))

\* a collection without the time of its last change
WithoutUpdatedAt(coll) == [coll EXCEPT !.updated_at = 0]

\* the sync has ended, every item it observed was unchanged and it removed
\* nothing
NothingChanged ==
    /\ op = "syncCollection"
    /\ pc = "done"
    /\ ret = "success"
    /\ Len(results) = nItems
    /\ \A i \in 1..Len(results) : results[i].action = "skipped"

\* C37: a syncCollection over a stored collection in which every observed
\* document is unchanged and no stored document is unobserved makes no call
\* of an ingest, and leaves the documents, the files of the manifest, every
\* hash and indexed_at, and created_at as they were; only updated_at may
\* change.
C37_UnchangedSyncKeepsTheCollection ==
    (NothingChanged /\ before[collName] # NoCollection) =>
        /\ ingestCalls = 0
        /\ WithoutUpdatedAt(staticData[collName]) = WithoutUpdatedAt(before[collName])
        /\ \A name \in CollNames \ {collName} : staticData[name] = before[name]

\* a sync observes the one document of the collection, unchanged; the
\* collection differs from what it was in updated_at only
C37_Witness ==
    /\ NothingChanged
    /\ nItems = 1
    /\ before[collName] # NoCollection
    /\ Keys(before[collName].documents) = << items[1].name >>
    /\ staticData[collName].documents = before[collName].documents
    /\ staticData[collName].files = before[collName].files
    /\ staticData[collName].created_at = before[collName].created_at
    /\ staticData[collName].updated_at # before[collName].updated_at

\* the ids stored in the collection of the operation when it was entered
StoredBefore ==
    IF before[collName] = NoCollection THEN {} ELSE KeySet(before[collName].documents)

\* C38: ingestCollection removes no document and skips no item for its
\* hash: every input item is ingested, also when the manifest records the
\* hash of its content, and the ids that were stored before the pass and
\* are not among its items are still stored.
C38_IngestCollectionNeitherSkipsNorRemoves ==
    op = "ingestCollection" =>
        /\ \A i \in 1..Len(results) : results[i].action \notin {"skipped", "removed"}
        /\ StoredBefore \subseteq KeySet(collection.documents)
        /\ StoredBefore \subseteq KeySet(collection.files)
        /\ pc = "done" =>
              /\ ret = "success"
              /\ StoredBefore \subseteq KeySet(staticData[collName].documents)
              /\ StoredBefore \subseteq KeySet(staticData[collName].files)
              /\ Len(results) = nItems
              /\ ingestCalls = Len(SelectSeq(items, LAMBDA item : item.bin))

\* ingestCollection observes A alone, with the content whose hash the
\* manifest records, over a collection that holds A and B: A is ingested
\* again and B is still stored
C38_Witness ==
    /\ op = "ingestCollection"
    /\ pc = "done"
    /\ nItems = 1
    /\ items[1].name = "A"
    /\ StoredBefore = {"A", "B"}
    /\ Get(before[collName].files, "A").hash = BinaryHash(items[1].content)
    /\ ingestCalls = 1
    /\ results = << Entry("A", "updated", "") >>
    /\ KeySet(staticData[collName].documents) = {"A", "B"}

\* C39: created_at of a collection is set once, when an ingest or a sync
\* makes the collection under a name that was unknown, and no later
\* ingestDocument, ingestCollection, syncCollection or retrieve changes it;
\* it changes only when the collection is deleted and made again.
C39_CreatedAtIsSetOnce ==
    /\ [][\A name \in CollNames :
              /\ (staticData[name] # NoCollection /\ staticData'[name] # NoCollection)
                    => staticData'[name].created_at = staticData[name].created_at
              /\ (staticData[name] = NoCollection /\ staticData'[name] # NoCollection)
                    => /\ op' \in {"ingestDocument", "ingestCollection", "syncCollection"}
                       /\ before'[name] = NoCollection
                       /\ staticData'[name].created_at = now'
              /\ (staticData[name] # NoCollection /\ staticData'[name] = NoCollection)
                    => op' = "deleteCollection"]_vars
    /\ []((pc # "idle" /\ collection # NoCollection /\ before[collName] # NoCollection)
              => collection.created_at = before[collName].created_at)

\* a second ingest into a collection has ended: created_at is that of the
\* first, updated_at that of the second
C39_Witness ==
    /\ op \in {"ingestDocument", "ingestCollection", "syncCollection"}
    /\ pc = "done"
    /\ ret = "success"
    /\ before[collName] # NoCollection
    /\ before[collName].created_at = 1
    /\ staticData[collName].created_at = 1
    /\ staticData[collName].updated_at = 2
    /\ KeySet(staticData[collName].documents) # KeySet(before[collName].documents)

(***************************************************************************)
(* Invocations of execute() on one collection name that are under way at   *)
(* the same time.  An invocation runs without a pause from one await to    *)
(* the next; at the await of an ingest (node.ts 412, 419, 429, 497, 501)   *)
(* another invocation may start or go on.  getCollection (269-273) hands    *)
(* out the object that staticData holds, so invocations that found the      *)
(* collection stored work on one object, and an invocation that found none  *)
(* works on an object of its own (createEmptyCollection, 295-301) until it  *)
(* saves it (275-278).                                                      *)
(***************************************************************************)
MaxBatch == 1

\* the items of a batch: each with its binary, all of one content
ConcItems == [name : DocIds, content : {"# T"}, bin : {TRUE}]

\* a collection that holds the document A, as an ingest has stored it
Existing ==
    [createEmptyCollection EXCEPT
        !.documents = Set(@, "A", Tree("A", "# T")),
        !.files = Set(@, "A", [hash |-> BinaryHash("# T"), indexed_at |-> 0])]

InitConcurrent ==
    /\ StoreInit /\ LLMInit /\ EngineInit
    /\ response = ""
    /\ parseResult = NotParsed
    /\ FindInit
    /\ BuildInit
    /\ HashInit
    /\ SummariesInit
    /\ invocations = [p \in Invokers |-> NotInvoked]
    /\ \/ objects = << >> /\ storedRef = 0
       \/ objects = << Existing >> /\ storedRef = 1

ConcUnchanged ==
    UNCHANGED <<response, parseResult, findVars, buildVars, hashVars, ingestRun,
                storeVars, llmVars, engineVars>>

\* getCollection(collectionName) || createEmptyCollection() (node.ts 400, 460):
\* the object the invocation works on, and the objects there are then
Obtained ==
    IF storedRef # 0 THEN [ref |-> storedRef, objects |-> objects]
    ELSE [ref |-> Len(objects) + 1, objects |-> Append(objects, createEmptyCollection)]

\* the end of a batch (node.ts 527-541): the removal of a sync, and updated_at
Swept(o, coll, seen) ==
    [(IF o = "syncCollection" THEN RemoveUnseen(coll, Keys(coll.documents), seen) ELSE coll)
        EXCEPT !.updated_at = now]

\* the loop of a batch goes on with the next item, or the batch ends: the
\* object is swept and saved
GoesOnOrEnds(p, inv, objs) ==
    IF inv.idx > inv.n
    THEN /\ objects' = [objs EXCEPT ![inv.ref] = Swept(inv.op, @, inv.seen)]
         /\ storedRef' = inv.ref
         /\ invocations' = [invocations EXCEPT ![p] = [inv EXCEPT !.at = "done",
                                                                   !.ret = "success"]]
    ELSE /\ objects' = objs
         /\ UNCHANGED storedRef
         /\ invocations' = [invocations EXCEPT ![p] = [inv EXCEPT !.at = "loop"]]

\* ingestDocument is entered (node.ts 394-400) and awaits its ingest
ConcIngestDocument(p) ==
    /\ invocations[p].at = "idle"
    /\ \E item \in ConcItems :
          /\ objects' = Obtained.objects
          /\ invocations' = [invocations EXCEPT ![p] =
                 [NotInvoked EXCEPT !.at = "awaiting", !.op = "ingestDocument",
                                    !.ref = Obtained.ref, !.n = 1, !.items = << item >>]]
    /\ UNCHANGED storedRef
    /\ ConcUnchanged

\* ingestCollection or syncCollection is entered (node.ts 454-466)
ConcBatch(p) ==
    /\ invocations[p].at = "idle"
    /\ \E o \in {"ingestCollection", "syncCollection"}, n \in 0..MaxBatch :
          GoesOnOrEnds(p, [NotInvoked EXCEPT !.op = o, !.ref = Obtained.ref, !.n = n],
                       Obtained.objects)
    /\ ConcUnchanged

\* the loop takes its next item (node.ts 466-505): a sync skips it when the
\* manifest of the object records its hash, and else its ingest is awaited
ConcItem(p) ==
    /\ invocations[p].at = "loop"
    /\ \E item \in ConcItems :
          LET inv == invocations[p]
              read == [inv EXCEPT !.items = Append(@, item),
                                  !.seen = @ \cup {item.name}]
          IN  IF Unchanged(inv.op, objects[inv.ref], item.name, BinaryHash(item.content))
              THEN GoesOnOrEnds(p, [read EXCEPT !.idx = @ + 1], objects)
              ELSE /\ invocations' = [invocations EXCEPT ![p] = [read EXCEPT !.at = "awaiting"]]
                   /\ UNCHANGED <<objects, storedRef>>
    /\ ConcUnchanged

\* the awaited ingest returns the tree: it is stored in the object, and
\* ingestDocument saves the object (node.ts 435-443, 507-511)
ConcIngested(p) ==
    /\ invocations[p].at = "awaiting"
    /\ LET inv == invocations[p]
           item == inv.items[inv.idx]
           objs == [objects EXCEPT ![inv.ref] =
                       Upsert(@, item.name, Tree(item.name, item.content),
                              BinaryHash(item.content))]
       IN  IF inv.op = "ingestDocument"
           THEN /\ objects' = [objs EXCEPT ![inv.ref].updated_at = now]
                /\ storedRef' = inv.ref
                /\ invocations' = [invocations EXCEPT ![p] = [inv EXCEPT !.at = "done",
                                                                          !.ret = "success"]]
           ELSE GoesOnOrEnds(p, [inv EXCEPT !.idx = @ + 1], objs)
    /\ ConcUnchanged

\* the awaited ingest throws: ingestDocument fails (node.ts 553-563), a batch
\* goes on (518-524)
ConcIngestFails(p) ==
    /\ invocations[p].at = "awaiting"
    /\ LET inv == invocations[p]
       IN  IF inv.op = "ingestDocument"
           THEN /\ invocations' = [invocations EXCEPT ![p] = [inv EXCEPT !.at = "done",
                                                                          !.ret = "error"]]
                /\ UNCHANGED <<objects, storedRef>>
           ELSE GoesOnOrEnds(p, [inv EXCEPT !.idx = @ + 1], objects)
    /\ ConcUnchanged

NextConcurrent ==
    \/ \E p \in Invokers : ConcIngestDocument(p)
    \/ \E p \in Invokers : ConcBatch(p)
    \/ \E p \in Invokers : ConcItem(p)
    \/ \E p \in Invokers : ConcIngested(p)
    \/ \E p \in Invokers : ConcIngestFails(p)

SpecConcurrent == InitConcurrent /\ [][NextConcurrent]_vars

\* C34: when two invocations that change one collection, ingestDocument,
\* ingestCollection or syncCollection, take turns at the awaits of their
\* ingests, the collection that is stored has at every time the same keys in
\* the files of its manifest as in its documents, each upsert and each
\* removal writing both without an await in between; so has every object
\* that an invocation works on.
C34_StoredKeySetsAgreeUnderInterleaving ==
    /\ storedRef # 0 =>
          KeySet(objects[storedRef].files) = KeySet(objects[storedRef].documents)
    /\ \A r \in 1..Len(objects) : KeySet(objects[r].files) = KeySet(objects[r].documents)

\* two invocations found no collection and each made its own before the
\* other saved; both have ended, a sync among them, and what is stored has a
\* document with its manifest entry
C34_Witness ==
    /\ Len(objects) = 2
    /\ \A p \in Invokers : invocations[p].at = "done" /\ invocations[p].ret = "success"
    /\ invocations["first"].ref # invocations["second"].ref
    /\ invocations["first"].op = "syncCollection"
    /\ invocations["first"].seen = {"A"}
    /\ invocations["second"].op = "ingestDocument"
    /\ storedRef = invocations["first"].ref
    /\ KeySet(objects[storedRef].documents) = {"A"}
    /\ KeySet(objects[storedRef].files) = {"A"}

\* C35: when two ingestDocument invocations for different document ids on
\* one collection name take turns at the awaits of their ingests and both
\* succeed, the collection that is stored afterwards holds both documents,
\* whether or not the collection was there before the first was entered.
C35_BothInterleavedDocumentsAreStored ==
    (\A p \in Invokers : /\ invocations[p].op = "ingestDocument"
                         /\ invocations[p].at = "done"
                         /\ invocations[p].ret = "success")
    => \A p, q \in Invokers :
          invocations[p].items[1].name # invocations[q].items[1].name =>
              /\ storedRef # 0
              /\ {invocations[p].items[1].name, invocations[q].items[1].name}
                    \subseteq KeySet(objects[storedRef].documents)

====
